---------------------------- MODULE Spec2Model ----------------------------
(***************************************************************************)
(* StudyScape: the "open now" edge function                                *)
(* (supabase/functions/isOpenNowFilter/index.ts) and the screen that       *)
(* invokes it (HomeScreen).                                                *)
(*                                                                         *)
(* Strings are sequences of UTF-16 code units, so that toLowerCase, the    *)
(* relational operators on strings and padStart are computed the way the   *)
(* JavaScript engine computes them.  Other JavaScript values are tagged    *)
(* records: undefined, null, number, string, object.                       *)
(***************************************************************************)
EXTENDS Integers, Sequences, FiniteSets, TLC

VARIABLES
  \* ---- one call of isSpotOpen (specification SpecEval) ----
  spotHours,              \* argument spotHours
  melbourneDay,           \* argument melbourneDay
  melbourneYesterdayDay,  \* argument melbourneYesterdayDay
  melbourneCurrentTime,   \* argument melbourneCurrentTime
  evalResult,             \* what the call returned or threw
  evalPc,                 \* "input" | "called" | "off"
  \* ---- one request to the serve handler (specification Spec) ----
  pc,                     \* "idle" | "config" | "fetch" | "evaluate" | "done" | "off"
  supabaseUrl,            \* Deno.env.get('APP_SUPABASE_URL')
  supabaseServiceKey,     \* Deno.env.get('APP_SUPABASE_SERVICE_ROLE_KEY')
  spotsData,              \* data of the study_spots query
  fetchError,             \* error of the study_spots query
  timeContext,            \* what getCurrentMelbourneTime returned
  isSpotOpenCalls,        \* the calls of isSpotOpen the filter has made, in order
  response,               \* the Response the handler answered with
  \* ---- the Melbourne wall clock, read every minute (specification SpecClock) ----
  clockDay,               \* getDay() of the Melbourne time
  clockHours,             \* getHours()
  clockMinutes,           \* getMinutes()
  minutesLeft,            \* minutes until the observed run ends
  clockShift,             \* the daylight-saving change the run has passed, if any
  \* ---- two requests in flight (specification SpecConcurrent) ----
  requests,               \* per invocation: its position and its local constants
  \* ---- the relational operators on time strings (specification SpecCompare) ----
  cmpA,                   \* the left operand
  cmpResult,              \* the right operands b with cmpA < b, and those with cmpA > b
  \* ---- two calls of isSpotOpen on two hours maps (specification SpecPair) ----
  otherHours,             \* the second hours map
  otherResult,            \* what the call on the second map returned or threw
  \* ---- HomeScreen (specification SpecHome) ----
  mounted,                \* the component has been mounted
  homeSpots,              \* state spots: what the list displays
  loading,                \* state loading
  homeError,              \* state error
  refreshing,             \* state refreshing
  searchText,             \* state searchText
  wifiFilter,             \* state wifiFilter
  powerFilter,            \* state powerFilter
  openNowFilterActive,    \* state openNowFilterActive
  fetchedOpenSpotIds,     \* state fetchedOpenSpotIds
  isLoadingOpenNowIds,    \* state isLoadingOpenNowIds
  inFlight,               \* the fetchSpotsData calls suspended at an await
  timers,                 \* the pending timeouts of debounce, oldest first
  userActionsLeft,        \* how many more times the user acts
  invocations,            \* how many times the isOpenNowFilter function has been invoked
  activation,             \* how many times Open Now has been turned on
  openNowFailed,          \* an invocation failed since Open Now was last off
  refreshSettling         \* the last thing the user did was a pull-to-refresh

vars == <<spotHours, melbourneDay, melbourneYesterdayDay, melbourneCurrentTime,
          evalResult, evalPc, pc, supabaseUrl, supabaseServiceKey, spotsData,
          fetchError, timeContext, isSpotOpenCalls, response,
          clockDay, clockHours, clockMinutes, minutesLeft, clockShift, requests, cmpA,
          cmpResult,
          otherHours, otherResult,
          mounted, homeSpots, loading, homeError, refreshing, searchText, wifiFilter,
          powerFilter, openNowFilterActive, fetchedOpenSpotIds, isLoadingOpenNowIds,
          inFlight, timers, userActionsLeft, invocations, activation, openNowFailed,
          refreshSettling>>

evalVars == <<spotHours, melbourneDay, melbourneYesterdayDay,
              melbourneCurrentTime, evalResult, evalPc>>

handlerVars == <<pc, supabaseUrl, supabaseServiceKey, spotsData, fetchError,
                 timeContext, isSpotOpenCalls, response>>

clockVars == <<clockDay, clockHours, clockMinutes, minutesLeft, clockShift>>

concurrentVars == <<requests>>

compareVars == <<cmpA, cmpResult>>

pairVars == <<otherHours, otherResult>>

homeVars == <<mounted, homeSpots, loading, homeError, refreshing, searchText, wifiFilter,
              powerFilter, openNowFilterActive, fetchedOpenSpotIds, isLoadingOpenNowIds,
              inFlight, timers, userActionsLeft, invocations, activation, openNowFailed,
              refreshSettling>>

-----------------------------------------------------------------------------
(* Bounds of the model *)

\* the sampled clock readings are k * GridStep minutes after midnight, k in 0..MaxGrid
MaxGrid == 4

GridStep == 209

\* the longest study_spots result the handler is given
MaxSpots == 2

\* how many times the user of HomeScreen acts
MaxUserActions == 2

\* how many times the user presses Open Now when pressing nothing else
MaxToggles == 3

\* how many times the user acts where every timeout and call is followed to
\* its end
MaxSettlingActions == 1

-----------------------------------------------------------------------------
(* JavaScript values *)

Undefined == [t |-> "undefined"]

Null == [t |-> "null"]

Str(s) == [t |-> "string", v |-> s]

Num(n) == [t |-> "number", v |-> n]

Obj(f) == [t |-> "object", v |-> f]

\* ToBoolean, as applied by !x and by the operands of &&
Truthy(x) ==
  CASE x.t = "undefined" -> FALSE
    [] x.t = "null"      -> FALSE
    [] x.t = "string"    -> Len(x.v) > 0
    [] x.t = "number"    -> x.v # 0
    [] OTHER             -> TRUE

\* a mutant of GetProp: an object without the key gives one of the
\* properties it has
GetPropFallback(x, key) ==
  IF x.t = "object" /\ key \in DOMAIN x.v THEN x.v[key]
  ELSE IF x.t = "object" /\ DOMAIN x.v # {} THEN x.v[CHOOSE k \in DOMAIN x.v : TRUE]
  ELSE Undefined

\* x[key] and x.key on a value that is neither undefined nor null: an own
\* property of an object, undefined on anything else
GetProp(x, key) ==
  IF x.t = "object" /\ key \in DOMAIN x.v THEN x.v[key] ELSE Undefined

\* whether x.toLowerCase() is callable: only strings have the method
HasToLowerCase(x) == x.t = "string"

\* the code points that String.prototype.toLowerCase maps to one other code
\* point (Unicode 17.0 Lowercase_Mapping): <<first, last, step, delta>> maps
\* first, first + step, ... last to themselves plus delta
LowerCaseMapping ==
  << <<65, 90, 1, 32>>, <<192, 214, 1, 32>>, <<216, 222, 1, 32>>,
     <<256, 302, 2, 1>>, <<306, 310, 2, 1>>, <<313, 327, 2, 1>>,
     <<330, 374, 2, 1>>, <<376, 376, 1, -121>>, <<377, 381, 2, 1>>,
     <<385, 385, 1, 210>>, <<386, 388, 2, 1>>, <<390, 390, 1, 206>>,
     <<391, 391, 1, 1>>, <<393, 394, 1, 205>>, <<395, 395, 1, 1>>,
     <<398, 398, 1, 79>>, <<399, 399, 1, 202>>, <<400, 400, 1, 203>>,
     <<401, 401, 1, 1>>, <<403, 403, 1, 205>>, <<404, 404, 1, 207>>,
     <<406, 406, 1, 211>>, <<407, 407, 1, 209>>, <<408, 408, 1, 1>>,
     <<412, 412, 1, 211>>, <<413, 413, 1, 213>>, <<415, 415, 1, 214>>,
     <<416, 420, 2, 1>>, <<422, 422, 1, 218>>, <<423, 423, 1, 1>>,
     <<425, 425, 1, 218>>, <<428, 428, 1, 1>>, <<430, 430, 1, 218>>,
     <<431, 431, 1, 1>>, <<433, 434, 1, 217>>, <<435, 437, 2, 1>>,
     <<439, 439, 1, 219>>, <<440, 440, 1, 1>>, <<444, 444, 1, 1>>,
     <<452, 452, 1, 2>>, <<453, 453, 1, 1>>, <<455, 455, 1, 2>>,
     <<456, 456, 1, 1>>, <<458, 458, 1, 2>>, <<459, 475, 2, 1>>,
     <<478, 494, 2, 1>>, <<497, 497, 1, 2>>, <<498, 500, 2, 1>>,
     <<502, 502, 1, -97>>, <<503, 503, 1, -56>>, <<504, 542, 2, 1>>,
     <<544, 544, 1, -130>>, <<546, 562, 2, 1>>, <<570, 570, 1, 10795>>,
     <<571, 571, 1, 1>>, <<573, 573, 1, -163>>, <<574, 574, 1, 10792>>,
     <<577, 577, 1, 1>>, <<579, 579, 1, -195>>, <<580, 580, 1, 69>>,
     <<581, 581, 1, 71>>, <<582, 590, 2, 1>>, <<880, 882, 2, 1>>,
     <<886, 886, 1, 1>>, <<895, 895, 1, 116>>, <<902, 902, 1, 38>>,
     <<904, 906, 1, 37>>, <<908, 908, 1, 64>>, <<910, 911, 1, 63>>,
     <<913, 929, 1, 32>>, <<931, 939, 1, 32>>, <<975, 975, 1, 8>>,
     <<984, 1006, 2, 1>>, <<1012, 1012, 1, -60>>, <<1015, 1015, 1, 1>>,
     <<1017, 1017, 1, -7>>, <<1018, 1018, 1, 1>>, <<1021, 1023, 1, -130>>,
     <<1024, 1039, 1, 80>>, <<1040, 1071, 1, 32>>, <<1120, 1152, 2, 1>>,
     <<1162, 1214, 2, 1>>, <<1216, 1216, 1, 15>>, <<1217, 1229, 2, 1>>,
     <<1232, 1326, 2, 1>>, <<1329, 1366, 1, 48>>, <<4256, 4293, 1, 7264>>,
     <<4295, 4295, 1, 7264>>, <<4301, 4301, 1, 7264>>,
     <<5024, 5103, 1, 38864>>, <<5104, 5109, 1, 8>>, <<7305, 7305, 1, 1>>,
     <<7312, 7354, 1, -3008>>, <<7357, 7359, 1, -3008>>,
     <<7680, 7828, 2, 1>>, <<7838, 7838, 1, -7615>>, <<7840, 7934, 2, 1>>,
     <<7944, 7951, 1, -8>>, <<7960, 7965, 1, -8>>, <<7976, 7983, 1, -8>>,
     <<7992, 7999, 1, -8>>, <<8008, 8013, 1, -8>>, <<8025, 8031, 2, -8>>,
     <<8040, 8047, 1, -8>>, <<8072, 8079, 1, -8>>, <<8088, 8095, 1, -8>>,
     <<8104, 8111, 1, -8>>, <<8120, 8121, 1, -8>>, <<8122, 8123, 1, -74>>,
     <<8124, 8124, 1, -9>>, <<8136, 8139, 1, -86>>, <<8140, 8140, 1, -9>>,
     <<8152, 8153, 1, -8>>, <<8154, 8155, 1, -100>>, <<8168, 8169, 1, -8>>,
     <<8170, 8171, 1, -112>>, <<8172, 8172, 1, -7>>, <<8184, 8185, 1, -128>>,
     <<8186, 8187, 1, -126>>, <<8188, 8188, 1, -9>>,
     <<8486, 8486, 1, -7517>>, <<8490, 8490, 1, -8383>>,
     <<8491, 8491, 1, -8262>>, <<8498, 8498, 1, 28>>, <<8544, 8559, 1, 16>>,
     <<8579, 8579, 1, 1>>, <<9398, 9423, 1, 26>>, <<11264, 11311, 1, 48>>,
     <<11360, 11360, 1, 1>>, <<11362, 11362, 1, -10743>>,
     <<11363, 11363, 1, -3814>>, <<11364, 11364, 1, -10727>>,
     <<11367, 11371, 2, 1>>, <<11373, 11373, 1, -10780>>,
     <<11374, 11374, 1, -10749>>, <<11375, 11375, 1, -10783>>,
     <<11376, 11376, 1, -10782>>, <<11378, 11378, 1, 1>>,
     <<11381, 11381, 1, 1>>, <<11390, 11391, 1, -10815>>,
     <<11392, 11490, 2, 1>>, <<11499, 11501, 2, 1>>, <<11506, 11506, 1, 1>>,
     <<42560, 42604, 2, 1>>, <<42624, 42650, 2, 1>>, <<42786, 42798, 2, 1>>,
     <<42802, 42862, 2, 1>>, <<42873, 42875, 2, 1>>,
     <<42877, 42877, 1, -35332>>, <<42878, 42886, 2, 1>>,
     <<42891, 42891, 1, 1>>, <<42893, 42893, 1, -42280>>,
     <<42896, 42898, 2, 1>>, <<42902, 42920, 2, 1>>,
     <<42922, 42922, 1, -42308>>, <<42923, 42923, 1, -42319>>,
     <<42924, 42924, 1, -42315>>, <<42925, 42925, 1, -42305>>,
     <<42926, 42926, 1, -42308>>, <<42928, 42928, 1, -42258>>,
     <<42929, 42929, 1, -42282>>, <<42930, 42930, 1, -42261>>,
     <<42931, 42931, 1, 928>>, <<42932, 42946, 2, 1>>,
     <<42948, 42948, 1, -48>>, <<42949, 42949, 1, -42307>>,
     <<42950, 42950, 1, -35384>>, <<42951, 42953, 2, 1>>,
     <<42955, 42955, 1, -42343>>, <<42956, 42970, 2, 1>>,
     <<42972, 42972, 1, -42561>>, <<42997, 42997, 1, 1>>,
     <<65313, 65338, 1, 32>>, <<66560, 66599, 1, 40>>,
     <<66736, 66771, 1, 40>>, <<66928, 66964, 2, 39>>,
     <<66929, 66937, 2, 39>>, <<66941, 66953, 2, 39>>,
     <<66957, 66961, 2, 39>>, <<66965, 66965, 1, 39>>,
     <<68736, 68786, 1, 64>>, <<68944, 68965, 1, 32>>,
     <<71840, 71871, 1, 32>>, <<93760, 93791, 1, 32>>,
     <<93856, 93880, 1, 27>>, <<125184, 125217, 1, 34>> >>

\* the code points with the property Cased that are not Case_Ignorable, as
\* ranges <<first, last>>
CasedLetters ==
  << <<65, 90>>, <<97, 122>>, <<170, 170>>, <<181, 181>>, <<186, 186>>,
     <<192, 214>>, <<216, 246>>, <<248, 442>>, <<444, 447>>, <<452, 659>>,
     <<662, 687>>, <<880, 883>>, <<886, 887>>, <<891, 893>>, <<895, 895>>,
     <<902, 902>>, <<904, 906>>, <<908, 908>>, <<910, 929>>, <<931, 1013>>,
     <<1015, 1153>>, <<1162, 1327>>, <<1329, 1366>>, <<1376, 1416>>,
     <<4256, 4293>>, <<4295, 4295>>, <<4301, 4301>>, <<4304, 4346>>,
     <<4349, 4351>>, <<5024, 5109>>, <<5112, 5117>>, <<7296, 7306>>,
     <<7312, 7354>>, <<7357, 7359>>, <<7424, 7467>>, <<7531, 7543>>,
     <<7545, 7578>>, <<7680, 7957>>, <<7960, 7965>>, <<7968, 8005>>,
     <<8008, 8013>>, <<8016, 8023>>, <<8025, 8025>>, <<8027, 8027>>,
     <<8029, 8029>>, <<8031, 8061>>, <<8064, 8116>>, <<8118, 8124>>,
     <<8126, 8126>>, <<8130, 8132>>, <<8134, 8140>>, <<8144, 8147>>,
     <<8150, 8155>>, <<8160, 8172>>, <<8178, 8180>>, <<8182, 8188>>,
     <<8450, 8450>>, <<8455, 8455>>, <<8458, 8467>>, <<8469, 8469>>,
     <<8473, 8477>>, <<8484, 8484>>, <<8486, 8486>>, <<8488, 8488>>,
     <<8490, 8493>>, <<8495, 8500>>, <<8505, 8505>>, <<8508, 8511>>,
     <<8517, 8521>>, <<8526, 8526>>, <<8544, 8575>>, <<8579, 8580>>,
     <<9398, 9449>>, <<11264, 11387>>, <<11390, 11492>>, <<11499, 11502>>,
     <<11506, 11507>>, <<11520, 11557>>, <<11559, 11559>>, <<11565, 11565>>,
     <<42560, 42605>>, <<42624, 42651>>, <<42786, 42863>>, <<42865, 42887>>,
     <<42891, 42894>>, <<42896, 42972>>, <<42997, 42998>>, <<43002, 43002>>,
     <<43824, 43866>>, <<43872, 43880>>, <<43888, 43967>>, <<64256, 64262>>,
     <<64275, 64279>>, <<65313, 65338>>, <<65345, 65370>>, <<66560, 66639>>,
     <<66736, 66771>>, <<66776, 66811>>, <<66928, 66938>>, <<66940, 66954>>,
     <<66956, 66962>>, <<66964, 66965>>, <<66967, 66977>>, <<66979, 66993>>,
     <<66995, 67001>>, <<67003, 67004>>, <<68736, 68786>>, <<68800, 68850>>,
     <<68944, 68965>>, <<68976, 68997>>, <<71840, 71903>>, <<93760, 93823>>,
     <<93856, 93880>>, <<93883, 93907>>, <<119808, 119892>>,
     <<119894, 119964>>, <<119966, 119967>>, <<119970, 119970>>,
     <<119973, 119974>>, <<119977, 119980>>, <<119982, 119993>>,
     <<119995, 119995>>, <<119997, 120003>>, <<120005, 120069>>,
     <<120071, 120074>>, <<120077, 120084>>, <<120086, 120092>>,
     <<120094, 120121>>, <<120123, 120126>>, <<120128, 120132>>,
     <<120134, 120134>>, <<120138, 120144>>, <<120146, 120485>>,
     <<120488, 120512>>, <<120514, 120538>>, <<120540, 120570>>,
     <<120572, 120596>>, <<120598, 120628>>, <<120630, 120654>>,
     <<120656, 120686>>, <<120688, 120712>>, <<120714, 120744>>,
     <<120746, 120770>>, <<120772, 120779>>, <<122624, 122633>>,
     <<122635, 122654>>, <<122661, 122666>>, <<125184, 125251>>,
     <<127280, 127305>>, <<127312, 127337>>, <<127344, 127369>> >>

\* the code points with the property Case_Ignorable, as ranges <<first, last>>
CaseIgnorables ==
  << <<39, 39>>, <<46, 46>>, <<58, 58>>, <<94, 94>>, <<96, 96>>,
     <<168, 168>>, <<173, 173>>, <<175, 175>>, <<180, 180>>, <<183, 184>>,
     <<688, 879>>, <<884, 885>>, <<890, 890>>, <<900, 901>>, <<903, 903>>,
     <<1155, 1161>>, <<1369, 1369>>, <<1375, 1375>>, <<1425, 1469>>,
     <<1471, 1471>>, <<1473, 1474>>, <<1476, 1477>>, <<1479, 1479>>,
     <<1524, 1524>>, <<1536, 1541>>, <<1552, 1562>>, <<1564, 1564>>,
     <<1600, 1600>>, <<1611, 1631>>, <<1648, 1648>>, <<1750, 1757>>,
     <<1759, 1768>>, <<1770, 1773>>, <<1807, 1807>>, <<1809, 1809>>,
     <<1840, 1866>>, <<1958, 1968>>, <<2027, 2037>>, <<2042, 2042>>,
     <<2045, 2045>>, <<2070, 2093>>, <<2137, 2139>>, <<2184, 2184>>,
     <<2192, 2193>>, <<2199, 2207>>, <<2249, 2306>>, <<2362, 2362>>,
     <<2364, 2364>>, <<2369, 2376>>, <<2381, 2381>>, <<2385, 2391>>,
     <<2402, 2403>>, <<2417, 2417>>, <<2433, 2433>>, <<2492, 2492>>,
     <<2497, 2500>>, <<2509, 2509>>, <<2530, 2531>>, <<2558, 2558>>,
     <<2561, 2562>>, <<2620, 2620>>, <<2625, 2626>>, <<2631, 2632>>,
     <<2635, 2637>>, <<2641, 2641>>, <<2672, 2673>>, <<2677, 2677>>,
     <<2689, 2690>>, <<2748, 2748>>, <<2753, 2757>>, <<2759, 2760>>,
     <<2765, 2765>>, <<2786, 2787>>, <<2810, 2815>>, <<2817, 2817>>,
     <<2876, 2876>>, <<2879, 2879>>, <<2881, 2884>>, <<2893, 2893>>,
     <<2901, 2902>>, <<2914, 2915>>, <<2946, 2946>>, <<3008, 3008>>,
     <<3021, 3021>>, <<3072, 3072>>, <<3076, 3076>>, <<3132, 3132>>,
     <<3134, 3136>>, <<3142, 3144>>, <<3146, 3149>>, <<3157, 3158>>,
     <<3170, 3171>>, <<3201, 3201>>, <<3260, 3260>>, <<3263, 3263>>,
     <<3270, 3270>>, <<3276, 3277>>, <<3298, 3299>>, <<3328, 3329>>,
     <<3387, 3388>>, <<3393, 3396>>, <<3405, 3405>>, <<3426, 3427>>,
     <<3457, 3457>>, <<3530, 3530>>, <<3538, 3540>>, <<3542, 3542>>,
     <<3633, 3633>>, <<3636, 3642>>, <<3654, 3662>>, <<3761, 3761>>,
     <<3764, 3772>>, <<3782, 3782>>, <<3784, 3790>>, <<3864, 3865>>,
     <<3893, 3893>>, <<3895, 3895>>, <<3897, 3897>>, <<3953, 3966>>,
     <<3968, 3972>>, <<3974, 3975>>, <<3981, 3991>>, <<3993, 4028>>,
     <<4038, 4038>>, <<4141, 4144>>, <<4146, 4151>>, <<4153, 4154>>,
     <<4157, 4158>>, <<4184, 4185>>, <<4190, 4192>>, <<4209, 4212>>,
     <<4226, 4226>>, <<4229, 4230>>, <<4237, 4237>>, <<4253, 4253>>,
     <<4348, 4348>>, <<4957, 4959>>, <<5906, 5908>>, <<5938, 5939>>,
     <<5970, 5971>>, <<6002, 6003>>, <<6068, 6069>>, <<6071, 6077>>,
     <<6086, 6086>>, <<6089, 6099>>, <<6103, 6103>>, <<6109, 6109>>,
     <<6155, 6159>>, <<6211, 6211>>, <<6277, 6278>>, <<6313, 6313>>,
     <<6432, 6434>>, <<6439, 6440>>, <<6450, 6450>>, <<6457, 6459>>,
     <<6679, 6680>>, <<6683, 6683>>, <<6742, 6742>>, <<6744, 6750>>,
     <<6752, 6752>>, <<6754, 6754>>, <<6757, 6764>>, <<6771, 6780>>,
     <<6783, 6783>>, <<6823, 6823>>, <<6832, 6877>>, <<6880, 6891>>,
     <<6912, 6915>>, <<6964, 6964>>, <<6966, 6970>>, <<6972, 6972>>,
     <<6978, 6978>>, <<7019, 7027>>, <<7040, 7041>>, <<7074, 7077>>,
     <<7080, 7081>>, <<7083, 7085>>, <<7142, 7142>>, <<7144, 7145>>,
     <<7149, 7149>>, <<7151, 7153>>, <<7212, 7219>>, <<7222, 7223>>,
     <<7288, 7293>>, <<7376, 7378>>, <<7380, 7392>>, <<7394, 7400>>,
     <<7405, 7405>>, <<7412, 7412>>, <<7416, 7417>>, <<7468, 7530>>,
     <<7544, 7544>>, <<7579, 7679>>, <<8125, 8125>>, <<8127, 8129>>,
     <<8141, 8143>>, <<8157, 8159>>, <<8173, 8175>>, <<8189, 8190>>,
     <<8203, 8207>>, <<8216, 8217>>, <<8228, 8228>>, <<8231, 8231>>,
     <<8234, 8238>>, <<8288, 8292>>, <<8294, 8303>>, <<8305, 8305>>,
     <<8319, 8319>>, <<8336, 8348>>, <<8400, 8432>>, <<11388, 11389>>,
     <<11503, 11505>>, <<11631, 11631>>, <<11647, 11647>>, <<11744, 11775>>,
     <<11823, 11823>>, <<12293, 12293>>, <<12330, 12333>>, <<12337, 12341>>,
     <<12347, 12347>>, <<12441, 12446>>, <<12540, 12542>>, <<40981, 40981>>,
     <<42232, 42237>>, <<42508, 42508>>, <<42607, 42610>>, <<42612, 42621>>,
     <<42623, 42623>>, <<42652, 42655>>, <<42736, 42737>>, <<42752, 42785>>,
     <<42864, 42864>>, <<42888, 42890>>, <<42993, 42996>>, <<43000, 43001>>,
     <<43010, 43010>>, <<43014, 43014>>, <<43019, 43019>>, <<43045, 43046>>,
     <<43052, 43052>>, <<43204, 43205>>, <<43232, 43249>>, <<43263, 43263>>,
     <<43302, 43309>>, <<43335, 43345>>, <<43392, 43394>>, <<43443, 43443>>,
     <<43446, 43449>>, <<43452, 43453>>, <<43471, 43471>>, <<43493, 43494>>,
     <<43561, 43566>>, <<43569, 43570>>, <<43573, 43574>>, <<43587, 43587>>,
     <<43596, 43596>>, <<43632, 43632>>, <<43644, 43644>>, <<43696, 43696>>,
     <<43698, 43700>>, <<43703, 43704>>, <<43710, 43711>>, <<43713, 43713>>,
     <<43741, 43741>>, <<43756, 43757>>, <<43763, 43764>>, <<43766, 43766>>,
     <<43867, 43871>>, <<43881, 43883>>, <<44005, 44005>>, <<44008, 44008>>,
     <<44013, 44013>>, <<64286, 64286>>, <<64434, 64450>>, <<65024, 65039>>,
     <<65043, 65043>>, <<65056, 65071>>, <<65106, 65106>>, <<65109, 65109>>,
     <<65279, 65279>>, <<65287, 65287>>, <<65294, 65294>>, <<65306, 65306>>,
     <<65342, 65342>>, <<65344, 65344>>, <<65392, 65392>>, <<65438, 65439>>,
     <<65507, 65507>>, <<65529, 65531>>, <<66045, 66045>>, <<66272, 66272>>,
     <<66422, 66426>>, <<67456, 67461>>, <<67463, 67504>>, <<67506, 67514>>,
     <<68097, 68099>>, <<68101, 68102>>, <<68108, 68111>>, <<68152, 68154>>,
     <<68159, 68159>>, <<68325, 68326>>, <<68900, 68903>>, <<68942, 68942>>,
     <<68969, 68973>>, <<68975, 68975>>, <<69291, 69292>>, <<69317, 69317>>,
     <<69370, 69375>>, <<69446, 69456>>, <<69506, 69509>>, <<69633, 69633>>,
     <<69688, 69702>>, <<69744, 69744>>, <<69747, 69748>>, <<69759, 69761>>,
     <<69811, 69814>>, <<69817, 69818>>, <<69821, 69821>>, <<69826, 69826>>,
     <<69837, 69837>>, <<69888, 69890>>, <<69927, 69931>>, <<69933, 69940>>,
     <<70003, 70003>>, <<70016, 70017>>, <<70070, 70078>>, <<70089, 70092>>,
     <<70095, 70095>>, <<70191, 70193>>, <<70196, 70196>>, <<70198, 70199>>,
     <<70206, 70206>>, <<70209, 70209>>, <<70367, 70367>>, <<70371, 70378>>,
     <<70400, 70401>>, <<70459, 70460>>, <<70464, 70464>>, <<70502, 70508>>,
     <<70512, 70516>>, <<70587, 70592>>, <<70606, 70606>>, <<70608, 70608>>,
     <<70610, 70610>>, <<70625, 70626>>, <<70712, 70719>>, <<70722, 70724>>,
     <<70726, 70726>>, <<70750, 70750>>, <<70835, 70840>>, <<70842, 70842>>,
     <<70847, 70848>>, <<70850, 70851>>, <<71090, 71093>>, <<71100, 71101>>,
     <<71103, 71104>>, <<71132, 71133>>, <<71219, 71226>>, <<71229, 71229>>,
     <<71231, 71232>>, <<71339, 71339>>, <<71341, 71341>>, <<71344, 71349>>,
     <<71351, 71351>>, <<71453, 71453>>, <<71455, 71455>>, <<71458, 71461>>,
     <<71463, 71467>>, <<71727, 71735>>, <<71737, 71738>>, <<71995, 71996>>,
     <<71998, 71998>>, <<72003, 72003>>, <<72148, 72151>>, <<72154, 72155>>,
     <<72160, 72160>>, <<72193, 72202>>, <<72243, 72248>>, <<72251, 72254>>,
     <<72263, 72263>>, <<72273, 72278>>, <<72281, 72283>>, <<72330, 72342>>,
     <<72344, 72345>>, <<72544, 72544>>, <<72546, 72548>>, <<72550, 72550>>,
     <<72752, 72758>>, <<72760, 72765>>, <<72767, 72767>>, <<72850, 72871>>,
     <<72874, 72880>>, <<72882, 72883>>, <<72885, 72886>>, <<73009, 73014>>,
     <<73018, 73018>>, <<73020, 73021>>, <<73023, 73029>>, <<73031, 73031>>,
     <<73104, 73105>>, <<73109, 73109>>, <<73111, 73111>>, <<73177, 73177>>,
     <<73459, 73460>>, <<73472, 73473>>, <<73526, 73530>>, <<73536, 73536>>,
     <<73538, 73538>>, <<73562, 73562>>, <<78896, 78912>>, <<78919, 78933>>,
     <<90398, 90409>>, <<90413, 90415>>, <<92912, 92916>>, <<92976, 92982>>,
     <<92992, 92995>>, <<93504, 93506>>, <<93547, 93548>>, <<94031, 94031>>,
     <<94095, 94111>>, <<94176, 94177>>, <<94179, 94180>>, <<94194, 94195>>,
     <<110576, 110579>>, <<110581, 110587>>, <<110589, 110590>>,
     <<113821, 113822>>, <<113824, 113827>>, <<118528, 118573>>,
     <<118576, 118598>>, <<119143, 119145>>, <<119155, 119170>>,
     <<119173, 119179>>, <<119210, 119213>>, <<119362, 119364>>,
     <<121344, 121398>>, <<121403, 121452>>, <<121461, 121461>>,
     <<121476, 121476>>, <<121499, 121503>>, <<121505, 121519>>,
     <<122880, 122886>>, <<122888, 122904>>, <<122907, 122913>>,
     <<122915, 122916>>, <<122918, 122922>>, <<122928, 122989>>,
     <<123023, 123023>>, <<123184, 123197>>, <<123566, 123566>>,
     <<123628, 123631>>, <<124139, 124143>>, <<124398, 124399>>,
     <<124643, 124643>>, <<124646, 124646>>, <<124654, 124655>>,
     <<124661, 124661>>, <<124671, 124671>>, <<125136, 125142>>,
     <<125252, 125259>>, <<127995, 127999>>, <<917505, 917505>>,
     <<917536, 917631>>, <<917760, 917999>> >>

\* whether code point c lies in one of the ranges <<first, last>>
InRanges(c, ranges) ==
  \E k \in 1..Len(ranges) : c >= ranges[k][1] /\ c <= ranges[k][2]

\* whether row k of LowerCaseMapping maps code point c
MapsCodePoint(k, c) ==
  /\ c >= LowerCaseMapping[k][1]
  /\ c <= LowerCaseMapping[k][2]
  /\ (c - LowerCaseMapping[k][1]) % LowerCaseMapping[k][3] = 0

\* the lower case of a code point that maps to one code point
SimpleLowerCase(c) ==
  IF \E k \in 1..Len(LowerCaseMapping) : MapsCodePoint(k, c)
    THEN c + LowerCaseMapping[CHOOSE k \in 1..Len(LowerCaseMapping) :
                                MapsCodePoint(k, c)][4]
    ELSE c

\* StringToCodePoints: a surrogate pair is one code point, any other code
\* unit, a lone surrogate too, is a code point of its own
RECURSIVE StringToCodePoints(_)
StringToCodePoints(s) ==
  IF s = <<>> THEN <<>>
  ELSE IF /\ Len(s) >= 2
          /\ s[1] >= 55296 /\ s[1] <= 56319
          /\ s[2] >= 56320 /\ s[2] <= 57343
    THEN <<(s[1] - 55296) * 1024 + (s[2] - 56320) + 65536>>
           \o StringToCodePoints(SubSeq(s, 3, Len(s)))
  ELSE <<s[1]>> \o StringToCodePoints(Tail(s))

\* CodePointsToString: the UTF-16 code units of a sequence of code points
RECURSIVE CodePointsToString(_)
CodePointsToString(cps) ==
  IF cps = <<>> THEN <<>>
  ELSE IF Head(cps) > 65535
    THEN <<55296 + ((Head(cps) - 65536) \div 1024),
           56320 + ((Head(cps) - 65536) % 1024)>>
           \o CodePointsToString(Tail(cps))
  ELSE <<Head(cps)>> \o CodePointsToString(Tail(cps))

\* the condition Final_Sigma at position i: a cased letter, then case-ignorable
\* code points only, come before it, and no case-ignorable code points and
\* then a cased letter come after it
FinalSigma(cps, i) ==
  /\ \E j \in 1..(i - 1) :
       /\ InRanges(cps[j], CasedLetters)
       /\ \A k \in (j + 1)..(i - 1) : InRanges(cps[k], CaseIgnorables)
  /\ ~\E j \in (i + 1)..Len(cps) :
       /\ InRanges(cps[j], CasedLetters)
       /\ \A k \in (i + 1)..(j - 1) : InRanges(cps[k], CaseIgnorables)

\* the lower case of the code point at position i: capital I with dot above
\* becomes i and a combining dot above, capital sigma becomes the final sigma
\* where Final_Sigma holds, any other code point has its simple lower case
LowerCaseAt(cps, i) ==
  IF cps[i] = 304 THEN <<105, 775>>
  ELSE IF cps[i] = 931 /\ FinalSigma(cps, i) THEN <<962>>
  ELSE <<SimpleLowerCase(cps[i])>>

\* the lower case of code points i, i + 1, ... of cps
RECURSIVE LowerCaseFrom(_, _)
LowerCaseFrom(cps, i) ==
  IF i > Len(cps) THEN <<>>
  ELSE LowerCaseAt(cps, i) \o LowerCaseFrom(cps, i + 1)

\* String.prototype.toLowerCase computed code point by code point
toLowerCaseFull(s) ==
  CodePointsToString(LowerCaseFrom(StringToCodePoints(s), 1))

\* String.prototype.toLowerCase: the language-insensitive lower case of every
\* code point (Unicode 17.0). A string of ASCII code units alone has the
\* same length and its capital letters 32 higher, which is what
\* toLowerCaseFull gives for it.
toLowerCase(s) ==
  IF \A i \in 1..Len(s) : s[i] < 128
    THEN [i \in 1..Len(s) |-> IF s[i] >= 65 /\ s[i] <= 90 THEN s[i] + 32 ELSE s[i]]
    ELSE toLowerCaseFull(s)

\* a mutant of StrLess: the first code units alone are compared
StrLessFirstUnit(a, b) == Len(a) > 0 /\ Len(b) > 0 /\ a[1] < b[1]

\* a < b on two strings: code unit by code unit, a proper prefix is smaller
StrLess(a, b) ==
  \E i \in 1..(Len(b)) :
    /\ \A j \in 1..(i - 1) : j <= Len(a) /\ a[j] = b[j]
    /\ \/ i > Len(a)
       \/ i <= Len(a) /\ a[i] < b[i]

\* a > b on two strings
StrGreater(a, b) == StrLess(b, a)

\* a mutant of StrGreaterEq: a time written with a one-digit hour is given its
\* leading zero before the comparison
StrGreaterEqPadded(a, b) ==
  ~StrLess(IF Len(a) = 4 THEN <<48>> \o a ELSE a, IF Len(b) = 4 THEN <<48>> \o b ELSE b)

\* a >= b on two strings
StrGreaterEq(a, b) == ~StrLess(a, b)

\* the literal 'closed'
CLOSED == <<99, 108, 111, 115, 101, 100>>

-----------------------------------------------------------------------------
(* getCurrentMelbourneTime *)

\* the array days
days ==
  << <<115, 117, 110, 100, 97, 121>>,
     <<109, 111, 110, 100, 97, 121>>,
     <<116, 117, 101, 115, 100, 97, 121>>,
     <<119, 101, 100, 110, 101, 115, 100, 97, 121>>,
     <<116, 104, 117, 114, 115, 100, 97, 121>>,
     <<102, 114, 105, 100, 97, 121>>,
     <<115, 97, 116, 117, 114, 100, 97, 121>> >>

\* Number.prototype.toString for the non-negative integers below 100
toString(n) ==
  IF n < 10 THEN <<48 + n>> ELSE <<48 + (n \div 10), 48 + (n % 10)>>

\* a mutant of padStart: no padding
padStartNone(s, targetLength) == s

\* s.padStart(targetLength, '0')
padStart(s, targetLength) ==
  [i \in 1..(IF Len(s) >= targetLength THEN Len(s) ELSE targetLength) |->
     IF Len(s) >= targetLength THEN s[i]
     ELSE IF i <= targetLength - Len(s) THEN 48
     ELSE s[i - (targetLength - Len(s))]]

\* `${hours}:${minutes}`
formatTime(getHours, getMinutes) ==
  padStart(toString(getHours), 2) \o <<58>> \o padStart(toString(getMinutes), 2)

\* a mutant of yesterdayIndex: no wrap from sunday back to saturday
yesterdayIndexNoWrap(dayIndex) == IF dayIndex = 0 THEN 0 ELSE dayIndex - 1

yesterdayIndex(dayIndex) == (dayIndex - 1 + 7) % 7

\* the object the function returns, for a Melbourne wall clock reading
\* getDay() = dayIndex, getHours() = h, getMinutes() = m (days is 0-based in the
\* source, 1-based here)
getCurrentMelbourneTime(dayIndex, h, m) ==
  [dayOfWeek          |-> days[dayIndex + 1],
   currentTime        |-> formatTime(h, m),
   yesterdayDayOfWeek |-> days[yesterdayIndex(dayIndex) + 1]]

-----------------------------------------------------------------------------
(* isSpotOpen *)

\* a completed call and the value returned
Return(b) == [throws |-> FALSE, ret |-> b]

\* the call ends with "TypeError: <variable>.toLowerCase is not a function",
\* the variable being the one whose value is no string
TypeError(variable) ==
  [throws |-> TRUE, ret |-> FALSE,
   message |-> variable \o ".toLowerCase is not a function"]

\* the TypeError of a property lookup on null
NullLookupError ==
  [throws |-> TRUE, ret |-> FALSE, message |-> "Cannot read properties of null"]

\* the property names open and close
OPEN == <<111, 112, 101, 110>>

CLOSE == <<99, 108, 111, 115, 101>>

\* a mutant of ScheduleUsable: the guard tests open only
ScheduleUsableOpenOnly(schedule) ==
  /\ Truthy(schedule)
  /\ Truthy(GetProp(schedule, OPEN))

\* the guard of both passes: schedule && schedule.open && schedule.close
ScheduleUsable(schedule) ==
  /\ Truthy(schedule)
  /\ Truthy(GetProp(schedule, OPEN))
  /\ Truthy(GetProp(schedule, CLOSE))

\* a mutant of IsClosedSentinel: the comparison without toLowerCase
IsClosedSentinelExact(s) == s = CLOSED

\* s.toLowerCase() === 'closed'
IsClosedSentinel(s) == toLowerCase(s) = CLOSED

\* a mutant of SameDayMatch: the close boundary taken as open
SameDayMatchInclusiveClose(openTime, closeTime, currentTime) ==
  StrGreaterEq(currentTime, openTime) /\ ~StrGreater(currentTime, closeTime)

\* melbourneCurrentTime >= openTime && melbourneCurrentTime < closeTime
SameDayMatch(openTime, closeTime, currentTime) ==
  StrGreaterEq(currentTime, openTime) /\ StrLess(currentTime, closeTime)

\* a mutant of OvernightMatch: the hours after midnight counted on the opening day
OvernightMatchBothEnds(openTime, closeTime, currentTime) ==
  StrGreaterEq(currentTime, openTime) \/ StrLess(currentTime, closeTime)

\* a mutant of OvernightMatch: the opening minute itself is not counted
OvernightMatchExclusiveOpen(openTime, closeTime, currentTime) ==
  StrGreater(currentTime, openTime)

\* melbourneCurrentTime >= openTime, in the branch openTime > closeTime
OvernightMatch(openTime, closeTime, currentTime) ==
  StrGreaterEq(currentTime, openTime)

\* a mutant of IsOvernight: a plain else after openTime < closeTime
IsOvernightOrEqual(openTime, closeTime) == ~StrLess(openTime, closeTime)

\* openTime > closeTime, the test of the overnight branch of today's pass
IsOvernight(openTime, closeTime) == StrGreater(openTime, closeTime)

\* a mutant of SpilloverMatch: yesterday's window kind is not tested
SpilloverMatchAnyWindow(openTimeYesterday, closeTimeYesterday, currentTime) ==
  StrLess(currentTime, closeTimeYesterday)

\* openTimeYesterday > closeTimeYesterday, then
\* melbourneCurrentTime < closeTimeYesterday
SpilloverMatch(openTimeYesterday, closeTimeYesterday, currentTime) ==
  /\ StrGreater(openTimeYesterday, closeTimeYesterday)
  /\ StrLess(currentTime, closeTimeYesterday)

\* the first pass, on today's schedule: "true" (return true), "next" (control
\* reaches the second pass), or the name of the variable whose toLowerCase
\* call throws a TypeError that leaves the function
TodayPass(todaySchedule, currentTime) ==
  IF ~ScheduleUsable(todaySchedule) THEN "next"
  ELSE
    LET openTime  == GetProp(todaySchedule, OPEN)
        closeTime == GetProp(todaySchedule, CLOSE)
    IN  IF ~HasToLowerCase(openTime) THEN "openTime"
        ELSE IF IsClosedSentinel(openTime.v) THEN "next"
        ELSE IF ~HasToLowerCase(closeTime) THEN "closeTime"
        ELSE IF IsClosedSentinel(closeTime.v) THEN "next"
        ELSE IF StrLess(openTime.v, closeTime.v)
          THEN (IF SameDayMatch(openTime.v, closeTime.v, currentTime)
                THEN "true" ELSE "next")
        ELSE IF IsOvernight(openTime.v, closeTime.v)
          THEN (IF OvernightMatch(openTime.v, closeTime.v, currentTime)
                THEN "true" ELSE "next")
        ELSE "next"

\* a mutant of YesterdayPass: yesterday's entry is never read
YesterdayPassSkipped(yesterdaySchedule, currentTime) == "next"

\* the second pass, on yesterday's schedule: "true", "next" (control reaches
\* the final return false), or the name of the variable whose toLowerCase call
\* throws
YesterdayPass(yesterdaySchedule, currentTime) ==
  IF ~ScheduleUsable(yesterdaySchedule) THEN "next"
  ELSE
    LET openTimeYesterday  == GetProp(yesterdaySchedule, OPEN)
        closeTimeYesterday == GetProp(yesterdaySchedule, CLOSE)
    IN  IF ~HasToLowerCase(openTimeYesterday) THEN "openTimeYesterday"
        ELSE IF IsClosedSentinel(openTimeYesterday.v) THEN "next"
        ELSE IF ~HasToLowerCase(closeTimeYesterday) THEN "closeTimeYesterday"
        ELSE IF IsClosedSentinel(closeTimeYesterday.v) THEN "next"
        ELSE IF SpilloverMatch(openTimeYesterday.v, closeTimeYesterday.v, currentTime)
          THEN "true"
        ELSE "next"

\* a mutant of LookupKey: the day name used as it is passed
LookupKeyAsGiven(day) == day

\* the key of both lookups: melbourneDay.toLowerCase(),
\* melbourneYesterdayDay.toLowerCase()
LookupKey(day) == toLowerCase(day)

\* a mutant of BothPasses: an entry for today that has both fields decides
\* alone, and yesterday's entry is read only when today's is unusable
BothPassesTodayDecides(hours, day, currentTime, yesterdayDay) ==
  LET todaySchedule == GetProp(hours, LookupKey(day))
      today == TodayPass(todaySchedule, currentTime)
  IN  IF today = "true" THEN Return(TRUE)
      ELSE IF today # "next" THEN TypeError(today)
      ELSE IF ScheduleUsable(todaySchedule) THEN Return(FALSE)
      ELSE
        LET yesterday ==
              YesterdayPass(GetProp(hours, LookupKey(yesterdayDay)), currentTime)
        IN  IF yesterday = "true" THEN Return(TRUE)
            ELSE IF yesterday # "next" THEN TypeError(yesterday)
            ELSE Return(FALSE)

\* the function after its first line: today's pass, then yesterday's
BothPasses(hours, day, currentTime, yesterdayDay) ==
  LET today == TodayPass(GetProp(hours, LookupKey(day)), currentTime)
  IN  IF today = "true" THEN Return(TRUE)
      ELSE IF today # "next" THEN TypeError(today)
      ELSE
        LET yesterday ==
              YesterdayPass(GetProp(hours, LookupKey(yesterdayDay)), currentTime)
        IN  IF yesterday = "true" THEN Return(TRUE)
            ELSE IF yesterday # "next" THEN TypeError(yesterday)
            ELSE Return(FALSE)

\* a mutant of isSpotOpen: no test of spotHours, so that the lookup on null
\* throws a TypeError
isSpotOpenUnguarded(hours, day, currentTime, yesterdayDay) ==
  IF hours.t \in {"null", "undefined"} THEN NullLookupError
  ELSE BothPasses(hours, day, currentTime, yesterdayDay)

isSpotOpen(hours, day, currentTime, yesterdayDay) ==
  IF ~Truthy(hours) THEN Return(FALSE)
  ELSE BothPasses(hours, day, currentTime, yesterdayDay)

-----------------------------------------------------------------------------
(* The inputs of SpecEval: values of the declared types SpotHours | null,   *)
(* DaySchedule | undefined and string                                       *)

\* the sampled minutes after midnight
GridMinutes == {(k * GridStep) % (24 * 60) : k \in 0..MaxGrid}

\* the clock readings a call is given
ClockTimes == {formatTime(g \div 60, g % 60) : g \in GridMinutes}

\* the times a schedule may hold: the inner points of the grid, so that a clock
\* reading exists before, at, between and after any two of them
ScheduleTimes ==
  {formatTime(g \div 60, g % 60) :
     g \in {(k * GridStep) % (24 * 60) : k \in 1..(MaxGrid - 1)}}

\* "closed", "Closed", "CLOSED"
ClosedSpellings ==
  {CLOSED, <<67, 108, 111, 115, 101, 100>>, <<67, 76, 79, 83, 69, 68>>}

\* what an open or close field may hold; Undefined stands for a missing field
FieldValues ==
  {Undefined} \cup {Str(c) : c \in ClosedSpellings} \cup {Str(t) : t \in ScheduleTimes}

\* the object {open, close} without the fields that are missing
MakeSchedule(open, close) ==
  LET present == {e \in {<<OPEN, open>>, <<CLOSE, close>>} : e[2] # Undefined}
  IN  Obj([k \in {e[1] : e \in present} |->
             (CHOOSE e \in present : e[1] = k)[2]])

\* what a day of the hours map may hold; Undefined stands for a day with no entry
DaySchedules ==
  {Undefined, Null} \cup {MakeSchedule(o, c) : o \in FieldValues, c \in FieldValues}

\* the hours object with the given <<key, value>> entries, without the entries
\* whose value is Undefined
MakeHours(entries) ==
  LET present == {e \in entries : e[2] # Undefined}
  IN  Obj([k \in {e[1] : e \in present} |->
             (CHOOSE e \in present : e[1] = k)[2]])

\* a day name with its first letter in upper case, as a caller may spell it
Capitalize(s) == [i \in 1..Len(s) |-> IF i = 1 THEN s[i] - 32 ELSE s[i]]

\* the days the sampled calls are made on: sunday (yesterday wraps to saturday)
\* and wednesday
SampleDayIndexes == {0, 3}

-----------------------------------------------------------------------------
(* SpecEval: one call of isSpotOpen on inputs drawn from the sets above *)

\* the variables of the specifications that are not running
ClockOff ==
  /\ clockDay = 0
  /\ clockHours = 0
  /\ clockMinutes = 0
  /\ minutesLeft = 0
  /\ clockShift = "none"

ConcurrentOff == requests = <<>>

CompareOff ==
  /\ cmpA = <<>>
  /\ cmpResult = Null

PairOff ==
  /\ otherHours = Null
  /\ otherResult = Null

HomeOff ==
  /\ mounted = FALSE
  /\ homeSpots = Null
  /\ loading = FALSE
  /\ homeError = Null
  /\ refreshing = FALSE
  /\ searchText = ""
  /\ wifiFilter = "all"
  /\ powerFilter = "all"
  /\ openNowFilterActive = FALSE
  /\ fetchedOpenSpotIds = Null
  /\ isLoadingOpenNowIds = FALSE
  /\ inFlight = <<>>
  /\ timers = <<>>
  /\ userActionsLeft = 0
  /\ invocations = 0
  /\ activation = 0
  /\ openNowFailed = FALSE
  /\ refreshSettling = FALSE

HandlerOff ==
  /\ pc = "off"
  /\ isSpotOpenCalls = <<>>
  /\ supabaseUrl = Undefined
  /\ supabaseServiceKey = Undefined
  /\ spotsData = Null
  /\ fetchError = Null
  /\ timeContext = Null
  /\ response = Null

InitEval ==
  /\ evalPc = "input"
  /\ evalResult = Null
  /\ melbourneCurrentTime = <<>>
  /\ HandlerOff
  /\ ClockOff
  /\ ConcurrentOff
  /\ CompareOff
  /\ PairOff
  /\ HomeOff
  /\ \/ \* no hours recorded, any two day names
        /\ spotHours = Null
        /\ melbourneDay \in {days[i] : i \in 1..7}
        /\ melbourneYesterdayDay \in {days[i] : i \in 1..7}
     \/ \* lowercase keys, the resolver's day names
        \E dayIndex \in SampleDayIndexes, st \in DaySchedules, sy \in DaySchedules :
          /\ melbourneDay = days[dayIndex + 1]
          /\ melbourneYesterdayDay = days[yesterdayIndex(dayIndex) + 1]
          /\ spotHours = MakeHours({<<melbourneDay, st>>, <<melbourneYesterdayDay, sy>>})
     \/ \* keys stored with a capital first letter
        \E dayIndex \in SampleDayIndexes, st \in DaySchedules, sy \in DaySchedules :
          /\ melbourneDay = days[dayIndex + 1]
          /\ melbourneYesterdayDay = days[yesterdayIndex(dayIndex) + 1]
          /\ spotHours = MakeHours({<<Capitalize(melbourneDay), st>>,
                                    <<Capitalize(melbourneYesterdayDay), sy>>})
     \/ \* lowercase keys, day names passed with a capital first letter
        \E dayIndex \in SampleDayIndexes, st \in DaySchedules, sy \in DaySchedules :
          /\ melbourneDay = Capitalize(days[dayIndex + 1])
          /\ melbourneYesterdayDay = Capitalize(days[yesterdayIndex(dayIndex) + 1])
          /\ spotHours = MakeHours({<<days[dayIndex + 1], st>>,
                                    <<days[yesterdayIndex(dayIndex) + 1], sy>>})

\* isSpotOpen(spotHours, melbourneDay, t, melbourneYesterdayDay) for a clock reading t
CallIsSpotOpen ==
  /\ evalPc = "input"
  /\ \E t \in ClockTimes :
       /\ melbourneCurrentTime' = t
       /\ evalResult' = isSpotOpen(spotHours, melbourneDay, t, melbourneYesterdayDay)
  /\ evalPc' = "called"
  /\ UNCHANGED <<spotHours, melbourneDay, melbourneYesterdayDay>>
  /\ UNCHANGED <<handlerVars, clockVars, concurrentVars, compareVars, pairVars, homeVars>>

NextEval == CallIsSpotOpen

SpecEval == InitEval /\ [][NextEval]_vars

-----------------------------------------------------------------------------
(* Vocabulary of the properties of isSpotOpen.  Times are read as minutes   *)
(* after midnight and the sentinel is recognised letter by letter, so that  *)
(* the properties do not repeat the string operations of the code.          *)

\* minutes after midnight of a five-character HH:MM string
Minutes(s) ==
  ((s[1] - 48) * 10 + (s[2] - 48)) * 60 + (s[4] - 48) * 10 + (s[5] - 48)

\* "closed" in any letter case
IsClosedWord(s) ==
  /\ Len(s) = 6
  /\ \A i \in 1..6 : s[i] = CLOSED[i] \/ s[i] = CLOSED[i] - 32

HasField(schedule, key) == schedule.t = "object" /\ key \in DOMAIN schedule.v

\* both fields present and neither the sentinel: the day states a window
IsWindow(schedule) ==
  /\ HasField(schedule, OPEN) /\ HasField(schedule, CLOSE)
  /\ schedule.v[OPEN].t = "string" /\ ~IsClosedWord(schedule.v[OPEN].v)
  /\ schedule.v[CLOSE].t = "string" /\ ~IsClosedWord(schedule.v[CLOSE].v)

OpenMin(schedule) == Minutes(schedule.v[OPEN].v)

CloseMin(schedule) == Minutes(schedule.v[CLOSE].v)

SameDayWindow(schedule) == IsWindow(schedule) /\ OpenMin(schedule) < CloseMin(schedule)

OvernightWindow(schedule) == IsWindow(schedule) /\ OpenMin(schedule) > CloseMin(schedule)

DegenerateWindow(schedule) == IsWindow(schedule) /\ OpenMin(schedule) = CloseMin(schedule)

\* open or close is the sentinel, whatever the other field holds
ClosedDay(schedule) ==
  \E key \in {OPEN, CLOSE} :
    /\ HasField(schedule, key)
    /\ schedule.v[key].t = "string"
    /\ IsClosedWord(schedule.v[key].v)

\* an entry in which open or close, or both, are missing
MissingField(schedule) ==
  schedule.t = "object" /\ ~(HasField(schedule, OPEN) /\ HasField(schedule, CLOSE))

\* the call of SpecEval has been made
Called == evalPc = "called"

\* the entries of the call's hours map for today and for yesterday
TodaySchedule == GetProp(spotHours, toLowerCase(melbourneDay))

YesterdaySchedule == GetProp(spotHours, toLowerCase(melbourneYesterdayDay))

NowMin == Minutes(melbourneCurrentTime)

\* today's window holds the clock reading
TodayMatches ==
  \/ SameDayWindow(TodaySchedule)
       /\ NowMin >= OpenMin(TodaySchedule) /\ NowMin < CloseMin(TodaySchedule)
  \/ OvernightWindow(TodaySchedule) /\ NowMin >= OpenMin(TodaySchedule)

\* yesterday's window is an overnight one and has not closed yet
Spillover ==
  OvernightWindow(YesterdaySchedule) /\ NowMin < CloseMin(YesterdaySchedule)

-----------------------------------------------------------------------------
(* Properties of isSpotOpen, checked under SpecEval *)

\* C1: for a same-day window today (open < close) and no spillover from
\* yesterday, isSpotOpen returns true exactly when open <= currentTime < close:
\* the open boundary is inclusive, the close boundary exclusive.
C1_SameDayWindow ==
  (Called /\ SameDayWindow(TodaySchedule) /\ ~Spillover)
    => evalResult = Return(NowMin >= OpenMin(TodaySchedule)
                           /\ NowMin < CloseMin(TodaySchedule))

\* a call at the close boundary of a same-day window, answered false
C1_Witness ==
  /\ Called /\ SameDayWindow(TodaySchedule) /\ ~Spillover
  /\ NowMin = CloseMin(TodaySchedule)
  /\ evalResult = Return(FALSE)

\* C2: for an overnight window starting today (open > close), isSpotOpen returns
\* true at every currentTime >= open, and, with no spillover from yesterday,
\* false at every currentTime < open, the times before today's close included.
C2_OvernightToday ==
  (Called /\ OvernightWindow(TodaySchedule))
    => /\ NowMin >= OpenMin(TodaySchedule) => evalResult = Return(TRUE)
       /\ (NowMin < OpenMin(TodaySchedule) /\ ~Spillover) => evalResult = Return(FALSE)

\* a call before the close value of today's overnight window, answered false
C2_Witness ==
  /\ Called /\ OvernightWindow(TodaySchedule) /\ ~Spillover
  /\ NowMin < CloseMin(TodaySchedule)
  /\ evalResult = Return(FALSE)

\* C3: when today's schedule gives no match, isSpotOpen returns true exactly when
\* yesterday has open and close, neither is the sentinel, open > close and
\* currentTime < yesterday's close; a yesterday with open < close never matches.
C3_YesterdaySpillover ==
  (Called /\ ~TodayMatches)
    => /\ evalResult = Return(Spillover)
       /\ SameDayWindow(YesterdaySchedule) => evalResult = Return(FALSE)

\* a call that today's schedule does not match and yesterday's spillover does
C3_Witness ==
  /\ Called /\ ~TodayMatches /\ Spillover
  /\ SameDayWindow(TodaySchedule)
  /\ evalResult = Return(TRUE)

\* today's entry yields no match: it is absent, lacks a field, is marked closed,
\* is degenerate, or is a window that does not hold the clock reading
TodayAbsent == TodaySchedule = Undefined

TodayOutsideWindow ==
  (SameDayWindow(TodaySchedule) \/ OvernightWindow(TodaySchedule)) /\ ~TodayMatches

\* C19: the two passes are combined as a disjunction: isSpotOpen returns true
\* exactly when today's schedule matches or yesterday's spillover matches, and
\* a today's schedule that yields no match, for whichever reason (absent,
\* incomplete, closed, degenerate, clock outside the window), leaves the result
\* to yesterday's spillover alone.
C19_PassesDisjoined ==
  Called =>
    /\ evalResult = Return(TodayMatches \/ Spillover)
    /\ \A reason \in {TodayAbsent, MissingField(TodaySchedule), ClosedDay(TodaySchedule),
                      DegenerateWindow(TodaySchedule), TodayOutsideWindow} :
         reason => evalResult = Return(Spillover)

\* a call on a day marked closed, answered true by yesterday's overnight window
C19_Witness ==
  /\ Called
  /\ ClosedDay(TodaySchedule)
  /\ ~MissingField(TodaySchedule)
  /\ Spillover
  /\ evalResult = Return(TRUE)

\* C4: isSpotOpen returns false whenever hours is null, whatever the day names
\* and the clock reading.
C4_NullHours ==
  (Called /\ spotHours = Null) => evalResult = Return(FALSE)

\* a call with null hours and the same day name given twice
C4_Witness ==
  /\ Called /\ spotHours = Null
  /\ melbourneDay = melbourneYesterdayDay
  /\ evalResult = Return(FALSE)

\* C5: a day whose open or close is "closed" in any letter case gives no match
\* as today (the result is yesterday's spillover alone) and none as yesterday
\* (the result is today's match alone); when both days are such days the
\* result is false.
C5_ClosedSentinel ==
  Called =>
    /\ ClosedDay(TodaySchedule) => evalResult = Return(Spillover)
    /\ ClosedDay(YesterdaySchedule) => evalResult = Return(TodayMatches)
    /\ (ClosedDay(TodaySchedule) /\ ClosedDay(YesterdaySchedule))
         => evalResult = Return(FALSE)

\* today opens "Closed" and closes at a time the clock has not reached,
\* yesterday opened at a time and closes "CLOSED": the answer is false
C5_Witness ==
  /\ Called
  /\ HasField(TodaySchedule, OPEN) /\ HasField(TodaySchedule, CLOSE)
  /\ TodaySchedule.v[OPEN] = Str(<<67, 108, 111, 115, 101, 100>>)
  /\ TodaySchedule.v[CLOSE].v \in ScheduleTimes
  /\ NowMin < Minutes(TodaySchedule.v[CLOSE].v)
  /\ HasField(YesterdaySchedule, OPEN) /\ HasField(YesterdaySchedule, CLOSE)
  /\ YesterdaySchedule.v[OPEN].v \in ScheduleTimes
  /\ YesterdaySchedule.v[CLOSE] = Str(<<67, 76, 79, 83, 69, 68>>)
  /\ evalResult = Return(FALSE)

\* the hours map with every key in lower case
LowerKeys(hours) ==
  IF hours.t # "object" THEN hours
  ELSE Obj([k \in {toLowerCase(j) : j \in DOMAIN hours.v} |->
              hours.v[CHOOSE j \in DOMAIN hours.v : toLowerCase(j) = k]])

\* the hours map without the keys that are not in lower case
OnlyLowerKeys(hours) ==
  IF hours.t # "object" THEN hours
  ELSE Obj([k \in {j \in DOMAIN hours.v : toLowerCase(j) = j} |-> hours.v[k]])

\* C6 as stated: the result does not depend on the letter case of the stored
\* day keys, a schedule stored under "Monday" counts as one stored under "monday".
C6_StoredKeyCaseIgnored ==
  Called =>
    evalResult = isSpotOpen(LowerKeys(spotHours), melbourneDay,
                            melbourneCurrentTime, melbourneYesterdayDay)

\* C6 as amended: the result does not depend on the letter case of the day names
\* passed to isSpotOpen, which are lowercased before the lookup; the stored keys
\* are matched exactly, so an entry under a key that is not lowercase is not read.
C6_LookupKeyCaseIgnored ==
  Called =>
    evalResult = isSpotOpen(OnlyLowerKeys(spotHours), toLowerCase(melbourneDay),
                            melbourneCurrentTime, toLowerCase(melbourneYesterdayDay))

\* a call with capitalised day names that finds today's window and answers true
C6_Witness ==
  /\ Called
  /\ melbourneDay # toLowerCase(melbourneDay)
  /\ TodayMatches
  /\ evalResult = Return(TRUE)

\* C9: a day entry in which open or close is missing gives no match as today
\* and none as yesterday, and no exception: the call returns what the other
\* day alone decides.
C9_MissingField ==
  Called =>
    /\ MissingField(TodaySchedule) => evalResult = Return(Spillover)
    /\ MissingField(YesterdaySchedule) => evalResult = Return(TodayMatches)

\* today has open and no close, yesterday has close and no open: false, no throw
C9_Witness ==
  /\ Called
  /\ HasField(TodaySchedule, OPEN) /\ ~HasField(TodaySchedule, CLOSE)
  /\ TodaySchedule.v[OPEN].v \in ScheduleTimes
  /\ ~HasField(YesterdaySchedule, OPEN) /\ HasField(YesterdaySchedule, CLOSE)
  /\ evalResult = Return(FALSE)

\* C10: a day with open equal to close gives no match at any currentTime,
\* neither as today nor as yesterday.
C10_OpenEqualsClose ==
  Called =>
    /\ DegenerateWindow(TodaySchedule) => evalResult = Return(Spillover)
    /\ DegenerateWindow(YesterdaySchedule) => evalResult = Return(TodayMatches)

\* open equals close on both days and the clock is past that time: false
C10_Witness ==
  /\ Called
  /\ DegenerateWindow(TodaySchedule) /\ DegenerateWindow(YesterdaySchedule)
  /\ NowMin >= OpenMin(TodaySchedule)
  /\ NowMin < CloseMin(YesterdaySchedule)
  /\ evalResult = Return(FALSE)

-----------------------------------------------------------------------------
(* The serve handler *)

\* new Response(JSON.stringify({ openSpotIds }), { status: 200 })
OkResponse(ids) == [status |-> 200, body |-> [openSpotIds |-> ids]]

\* the catch block: new Response(JSON.stringify({ error: error.message ||
\* 'An unexpected error occurred.' }), { status: 500 })
ErrorResponse(error) ==
  [status |-> 500,
   body   |-> [error |-> IF error.message # "" THEN error.message
                         ELSE "An unexpected error occurred."]]

\* the Error thrown when a configuration value is missing
MissingConfigError ==
  [message |->
     "Missing APP_SUPABASE_URL or APP_SUPABASE_SERVICE_ROLE_KEY environment variables."]

\* the call the filter callback makes for one spot
SpotResult(spot, context) ==
  isSpotOpen(spot.hours, context.dayOfWeek, context.currentTime,
             context.yesterdayDayOfWeek)

\* whether the filter callback throws on some spot, which ends the filter
FilterThrows(spots, context) ==
  \E i \in 1..Len(spots) : SpotResult(spots[i], context).throws

\* the error the filter ends with: the one thrown by the first call that throws
FilterError(spots, context) ==
  LET i == CHOOSE k \in 1..Len(spots) :
             /\ SpotResult(spots[k], context).throws
             /\ \A j \in 1..(k - 1) : ~SpotResult(spots[j], context).throws
  IN  [message |-> SpotResult(spots[i], context).message]

\* spotsData.filter(spot => isSpotOpen(...)), when no call throws
RECURSIVE FilterOpenSpots(_, _)
FilterOpenSpots(spots, context) ==
  IF spots = <<>> THEN <<>>
  ELSE (IF SpotResult(Head(spots), context).ret THEN <<Head(spots)>> ELSE <<>>)
         \o FilterOpenSpots(Tail(spots), context)

\* a mutant of FilterCalls: the clock is read again inside the callback, and
\* the calls after the first see the next day
FilterCallsResolvingEach(spots, context) ==
  LET made == IF FilterThrows(spots, context)
                THEN CHOOSE i \in 1..Len(spots) :
                       /\ SpotResult(spots[i], context).throws
                       /\ \A j \in 1..(i - 1) : ~SpotResult(spots[j], context).throws
                ELSE Len(spots)
  IN  [i \in 1..made |->
         [hours |-> spots[i].hours,
          dayOfWeek |-> IF i = 1 THEN context.dayOfWeek ELSE context.yesterdayDayOfWeek,
          currentTime |-> context.currentTime,
          yesterdayDayOfWeek |-> context.yesterdayDayOfWeek]]

\* the calls of isSpotOpen the filter makes, in order: one per spot, with the
\* constants destructured before the filter, up to and including a call that throws
FilterCalls(spots, context) ==
  LET made == IF FilterThrows(spots, context)
                THEN CHOOSE i \in 1..Len(spots) :
                       /\ SpotResult(spots[i], context).throws
                       /\ \A j \in 1..(i - 1) : ~SpotResult(spots[j], context).throws
                ELSE Len(spots)
  IN  [i \in 1..made |->
         [hours |-> spots[i].hours,
          dayOfWeek |-> context.dayOfWeek,
          currentTime |-> context.currentTime,
          yesterdayDayOfWeek |-> context.yesterdayDayOfWeek]]

\* .map(spot => spot.id)
MapIds(spots) == [i \in 1..Len(spots) |-> spots[i].id]

\* const openSpotIds = ...
openSpotIds(spots, context) == MapIds(FilterOpenSpots(spots, context))

-----------------------------------------------------------------------------
(* The inputs of Spec *)

\* what Deno.env.get may give: nothing, an empty string, a value
EnvValues == {Undefined, Str(<<>>), Str(<<120>>)}

\* the errors the study_spots query may report
FetchErrors == {[message |-> "permission denied for table study_spots"],
                [message |-> ""]}

WEDNESDAY == days[4]

\* the hours of the sampled spots: none; wednesday 08:00-22:00; wednesday
\* 22:00-06:00; wednesday with a number for open; wednesday with a number for
\* close; wednesday holding a string instead of an object
SampleHours ==
  { Null,
    MakeHours({<<WEDNESDAY, MakeSchedule(Str(formatTime(8, 0)), Str(formatTime(22, 0)))>>}),
    MakeHours({<<WEDNESDAY, MakeSchedule(Str(formatTime(22, 0)), Str(formatTime(6, 0)))>>}),
    MakeHours({<<WEDNESDAY, MakeSchedule(Num(900), Str(formatTime(17, 0)))>>}),
    MakeHours({<<WEDNESDAY, MakeSchedule(Str(formatTime(9, 0)), Num(1700))>>}),
    MakeHours({<<WEDNESDAY, Str(CLOSED)>>}) }

SpotIds == {"A", "B", "C"}

SampleSpots == {[id |-> i, hours |-> h] : i \in SpotIds, h \in SampleHours}

\* the results of the study_spots query: up to MaxSpots rows
SpotLists == UNION {[1..n -> SampleSpots] : n \in 0..MaxSpots}

\* the rows of the end-to-end scenario: A wednesday 08:00-22:00, B wednesday
\* 22:00-06:00, C without hours
EndToEndSpots ==
  << [id |-> "A",
      hours |-> MakeHours({<<WEDNESDAY, MakeSchedule(Str(<<48, 56, 58, 48, 48>>),
                                                     Str(<<50, 50, 58, 48, 48>>))>>})],
     [id |-> "B",
      hours |-> MakeHours({<<WEDNESDAY, MakeSchedule(Str(<<50, 50, 58, 48, 48>>),
                                                     Str(<<48, 54, 58, 48, 48>>))>>})],
     [id |-> "C", hours |-> Null] >>

\* the Melbourne days the handler is run on: sunday, wednesday, thursday
HandlerDayIndexes == {0, 3, 4}

\* the Melbourne times the handler is run at: the grid, 01:15 and 23:00
HandlerMinutes == GridMinutes \cup {1 * 60 + 15, 23 * 60}

-----------------------------------------------------------------------------
(* Spec: one request to the serve handler *)

EvalOff ==
  /\ evalPc = "off"
  /\ evalResult = Null
  /\ spotHours = Null
  /\ melbourneDay = <<>>
  /\ melbourneYesterdayDay = <<>>
  /\ melbourneCurrentTime = <<>>

Init ==
  /\ pc = "idle"
  /\ supabaseUrl \in EnvValues
  /\ supabaseServiceKey \in EnvValues
  /\ spotsData = Null
  /\ fetchError = Null
  /\ timeContext = Null
  /\ response = Null
  /\ isSpotOpenCalls = <<>>
  /\ EvalOff
  /\ ClockOff
  /\ ConcurrentOff
  /\ CompareOff
  /\ PairOff
  /\ HomeOff

\* serve calls the handler with a request
ReceiveRequest ==
  /\ pc = "idle"
  /\ pc' = "config"
  /\ UNCHANGED <<supabaseUrl, supabaseServiceKey, spotsData, fetchError,
                 timeContext, isSpotOpenCalls, response>>
  /\ UNCHANGED <<evalVars, clockVars, concurrentVars, compareVars, pairVars, homeVars>>

\* the configuration is read; a missing value throws into the catch block
ReadConfig ==
  /\ pc = "config"
  /\ IF ~Truthy(supabaseUrl) \/ ~Truthy(supabaseServiceKey)
       THEN /\ response' = ErrorResponse(MissingConfigError)
            /\ pc' = "done"
       ELSE /\ response' = response
            /\ pc' = "fetch"
  /\ UNCHANGED <<supabaseUrl, supabaseServiceKey, spotsData, fetchError, timeContext,
                 isSpotOpenCalls>>
  /\ UNCHANGED <<evalVars, clockVars, concurrentVars, compareVars, pairVars, homeVars>>

\* a mutant of FetchFails: the error is recorded and not thrown, and the
\* handler goes on with an empty result
FetchFailsSwallowed ==
  /\ pc = "fetch"
  /\ \E e \in FetchErrors : fetchError' = e
  /\ spotsData' = [t |-> "array", v |-> <<>>]
  /\ pc' = "evaluate"
  /\ UNCHANGED <<supabaseUrl, supabaseServiceKey, timeContext, isSpotOpenCalls, response>>
  /\ UNCHANGED <<evalVars, clockVars, concurrentVars, compareVars, pairVars, homeVars>>

\* the awaited query reports an error, which is thrown into the catch block
FetchFails ==
  /\ pc = "fetch"
  /\ \E e \in FetchErrors :
       /\ fetchError' = e
       /\ response' = ErrorResponse(e)
  /\ pc' = "done"
  /\ UNCHANGED <<supabaseUrl, supabaseServiceKey, spotsData, timeContext,
                 isSpotOpenCalls>>
  /\ UNCHANGED <<evalVars, clockVars, concurrentVars, compareVars, pairVars, homeVars>>

\* the awaited query gives neither an error nor data
FetchGivesNoData ==
  /\ pc = "fetch"
  /\ response' = OkResponse(<<>>)
  /\ pc' = "done"
  /\ UNCHANGED <<supabaseUrl, supabaseServiceKey, spotsData, fetchError, timeContext,
                 isSpotOpenCalls>>
  /\ UNCHANGED <<evalVars, clockVars, concurrentVars, compareVars, pairVars, homeVars>>

\* the awaited query gives the rows of study_spots
FetchGivesSpots ==
  /\ pc = "fetch"
  /\ \E spots \in SpotLists \cup {EndToEndSpots} :
       spotsData' = [t |-> "array", v |-> spots]
  /\ pc' = "evaluate"
  /\ UNCHANGED <<supabaseUrl, supabaseServiceKey, fetchError, timeContext,
                 isSpotOpenCalls, response>>
  /\ UNCHANGED <<evalVars, clockVars, concurrentVars, compareVars, pairVars, homeVars>>

\* a mutant of Evaluate: a TypeError of the filter callback is not caught and
\* the invocation ends without a response
EvaluateUncaught ==
  /\ pc = "evaluate"
  /\ \E dayIndex \in HandlerDayIndexes, g \in HandlerMinutes :
       LET context == getCurrentMelbourneTime(dayIndex, g \div 60, g % 60)
       IN  /\ timeContext' = context
           /\ isSpotOpenCalls' = FilterCalls(spotsData.v, context)
           /\ IF FilterThrows(spotsData.v, context)
                THEN response' = response /\ pc' = "crashed"
                ELSE /\ response' = OkResponse(openSpotIds(spotsData.v, context))
                     /\ pc' = "done"
  /\ UNCHANGED <<supabaseUrl, supabaseServiceKey, spotsData, fetchError>>
  /\ UNCHANGED <<evalVars, clockVars, concurrentVars, compareVars, pairVars, homeVars>>

\* the clock is read once, the spots are filtered and mapped to their ids, and
\* the handler answers; a TypeError of the filter callback is caught
Evaluate ==
  /\ pc = "evaluate"
  /\ \E dayIndex \in HandlerDayIndexes, g \in HandlerMinutes :
       LET context == getCurrentMelbourneTime(dayIndex, g \div 60, g % 60)
       IN  /\ timeContext' = context
           /\ isSpotOpenCalls' = FilterCalls(spotsData.v, context)
           /\ response' = IF FilterThrows(spotsData.v, context)
                            THEN ErrorResponse(FilterError(spotsData.v, context))
                            ELSE OkResponse(openSpotIds(spotsData.v, context))
  /\ pc' = "done"
  /\ UNCHANGED <<supabaseUrl, supabaseServiceKey, spotsData, fetchError>>
  /\ UNCHANGED <<evalVars, clockVars, concurrentVars, compareVars, pairVars, homeVars>>

Next ==
  \/ ReceiveRequest
  \/ ReadConfig
  \/ FetchFails
  \/ FetchGivesNoData
  \/ FetchGivesSpots
  \/ Evaluate

Spec == Init /\ [][Next]_vars

\* the handler runs on as long as it has a step to take: its synchronous code
\* runs to completion and the awaited query returns
FairSpec == Spec /\ WF_vars(Next)

-----------------------------------------------------------------------------
(* Properties of the batch filter, checked under Spec *)

\* the handler has filtered the rows it fetched
Evaluated == pc = "done" /\ spotsData.t = "array"

\* the positions of the fetched rows for which isSpotOpen returns true
OpenPositions ==
  {i \in 1..Len(spotsData.v) : SpotResult(spotsData.v[i], timeContext) = Return(TRUE)}

\* ids holds the ids of the rows at the positions P, in the order of the rows
IdsOfPositions(ids, P) ==
  /\ Len(ids) = Cardinality(P)
  /\ \A i \in P : ids[Cardinality({j \in P : j <= i})] = spotsData.v[i].id

\* C7: the batch filter returns exactly the ids of the input spots for which
\* isSpotOpen is true, in the order of the input: none added, dropped,
\* duplicated or reordered; an empty input and an all-closed input give the
\* empty list, an all-open input gives every id.
C7_BatchFilterExact ==
  Evaluated
    => /\ response.status = 200
       /\ IdsOfPositions(response.body.openSpotIds, OpenPositions)

\* the same for the batches on which no call of isSpotOpen throws
BatchFilterExactUnlessThrown ==
  (Evaluated /\ ~FilterThrows(spotsData.v, timeContext))
    => /\ response.status = 200
       /\ IdsOfPositions(response.body.openSpotIds, OpenPositions)

\* a batch whose first spot makes isSpotOpen throw and whose second spot is
\* open: the answer is 500 and holds no id
C7_ThrowingBatch ==
  /\ Evaluated
  /\ Len(spotsData.v) = 2
  /\ SpotResult(spotsData.v[1], timeContext).throws
  /\ SpotResult(spotsData.v[2], timeContext) = Return(TRUE)
  /\ response.status = 500

\* two fetched spots with different ids, both open: both ids, in input order
C7_Witness ==
  /\ Evaluated
  /\ Len(spotsData.v) = 2
  /\ OpenPositions = {1, 2}
  /\ spotsData.v[1].id # spotsData.v[2].id
  /\ response = OkResponse(<<spotsData.v[1].id, spotsData.v[2].id>>)

\* a day entry that is not an object, or an open or close that is present and
\* not a string
MalformedHours(hours) ==
  /\ hours.t = "object"
  /\ \E day \in DOMAIN hours.v :
       \/ hours.v[day].t \notin {"object", "null"}
       \/ /\ hours.v[day].t = "object"
          /\ \E key \in DOMAIN hours.v[day].v : hours.v[day].v[key].t # "string"

\* the positions of the fetched rows whose hours are not malformed and for
\* which isSpotOpen returns true
OpenWellFormedPositions ==
  {i \in OpenPositions : ~MalformedHours(spotsData.v[i].hours)}

\* C8: a malformed hours value on one spot never makes the batch fail: the
\* request answers 200 and the ids returned are those of the other spots, as
\* if the malformed spot were absent; evaluation never leads to the 500 response.
C8_MalformedSpotIsolated ==
  Evaluated
    => /\ response.status = 200
       /\ IdsOfPositions(response.body.openSpotIds, OpenWellFormedPositions)

-----------------------------------------------------------------------------
(* SpecClock: the Melbourne wall clock advances minute by minute; at every  *)
(* minute getCurrentMelbourneTime is read and one spot is evaluated with    *)
(* what it returns.  The variables of SpecEval hold that call.              *)

\* the length of a run over a day and the day after it, and over a week
TwoDayRun == 2 * 24 * 60 - 1

WeekRun == 7 * 24 * 60

\* the days d on which the watched spot opens overnight: saturday, wednesday
OvernightStartDays == {6, 3}

\* the overnight windows watched: the latest schedule time to the earliest
\* one, and 22:00 to 02:00
OvernightSamples ==
  LET inner == {(k * GridStep) % (24 * 60) : k \in 1..(MaxGrid - 1)}
      late  == CHOOSE g \in inner : \A x \in inner : x <= g
      early == CHOOSE g \in inner : \A x \in inner : x >= g
  IN  {MakeSchedule(Str(formatTime(late \div 60, late % 60)),
                    Str(formatTime(early \div 60, early % 60))),
       MakeSchedule(Str(formatTime(22, 0)), Str(formatTime(2, 0)))}

\* the call made at the clock reading (d, h, m)
ClockReading(d, h, m, hours, context) ==
  /\ clockDay' = d
  /\ clockHours' = h
  /\ clockMinutes' = m
  /\ melbourneDay' = context.dayOfWeek
  /\ melbourneCurrentTime' = context.currentTime
  /\ melbourneYesterdayDay' = context.yesterdayDayOfWeek
  /\ evalResult' = isSpotOpen(hours, context.dayOfWeek, context.currentTime,
                              context.yesterdayDayOfWeek)

InitClock ==
  /\ evalPc = "called"
  /\ clockHours = 0
  /\ clockMinutes = 0
  /\ clockShift = "none"
  /\ \/ \* a spot without hours, watched for a week from sunday 00:00
        /\ spotHours = Null
        /\ clockDay = 0
        /\ minutesLeft = WeekRun
     \/ \* a spot that opens overnight on day d, watched over d and the day
        \* after it, which holds any schedule
        \E d \in OvernightStartDays, w \in OvernightSamples, next \in DaySchedules :
          /\ spotHours = MakeHours({<<days[d + 1], w>>, <<days[((d + 1) % 7) + 1], next>>})
          /\ clockDay = d
          /\ minutesLeft = TwoDayRun
  /\ LET context == getCurrentMelbourneTime(clockDay, clockHours, clockMinutes)
     IN  /\ melbourneDay = context.dayOfWeek
         /\ melbourneCurrentTime = context.currentTime
         /\ melbourneYesterdayDay = context.yesterdayDayOfWeek
         /\ evalResult = isSpotOpen(spotHours, context.dayOfWeek, context.currentTime,
                                    context.yesterdayDayOfWeek)
  /\ HandlerOff
  /\ ConcurrentOff
  /\ CompareOff
  /\ PairOff
  /\ HomeOff

\* the readings of the Melbourne wall clock (timeZone "Australia/Melbourne")
\* one minute after the reading (d, h, m), each with the change it passes:
\* the next minute of the day; on a sunday on which daylight saving time
\* begins, 03:00 after 01:59; on a sunday on which it ends, 02:00 once more
\* after 02:59. A run passes one change at most.
ReadingsAfter(d, h, m, shift) ==
  LET m1 == (m + 1) % 60
      h1 == IF m1 = 0 THEN (h + 1) % 24 ELSE h
      d1 == IF m1 = 0 /\ h1 = 0 THEN (d + 1) % 7 ELSE d
  IN  {<<d1, h1, m1, shift>>}
        \cup (IF shift = "none" /\ d = 0 /\ h = 1 /\ m = 59
                THEN {<<0, 3, 0, "forward">>} ELSE {})
        \cup (IF shift = "none" /\ d = 0 /\ h = 2 /\ m = 59
                THEN {<<0, 2, 0, "back">>} ELSE {})

\* a minute passes, the clock is read and the spot is evaluated
Tick ==
  /\ minutesLeft > 0
  /\ minutesLeft' = minutesLeft - 1
  /\ \E r \in ReadingsAfter(clockDay, clockHours, clockMinutes, clockShift) :
       /\ ClockReading(r[1], r[2], r[3], spotHours,
                       getCurrentMelbourneTime(r[1], r[2], r[3]))
       /\ clockShift' = r[4]
  /\ UNCHANGED <<spotHours, evalPc>>
  /\ UNCHANGED <<handlerVars, concurrentVars, compareVars, pairVars, homeVars>>

NextClock == Tick

SpecClock == InitClock /\ [][NextClock]_vars

-----------------------------------------------------------------------------
(* Properties of the resolver and of the evaluator along the clock,         *)
(* checked under SpecClock                                                  *)

\* the seven lowercase day names, sunday first
WeekdayNames ==
  << <<115, 117, 110, 100, 97, 121>>,
     <<109, 111, 110, 100, 97, 121>>,
     <<116, 117, 101, 115, 100, 97, 121>>,
     <<119, 101, 100, 110, 101, 115, 100, 97, 121>>,
     <<116, 104, 117, 114, 115, 100, 97, 121>>,
     <<102, 114, 105, 100, 97, 121>>,
     <<115, 97, 116, 117, 114, 100, 97, 121>> >>

\* minutes after midnight of the clock
ClockMin == clockHours * 60 + clockMinutes

\* C11: for every weekday index i in 0..6, yesterdayDayOfWeek is the day name at
\* index (i - 1 + 7) mod 7, which lies in 0..6 and is followed by i; when today
\* is sunday (0), yesterday is saturday (6).
C11_YesterdayWraps ==
  \E y \in 0..6 :
    /\ melbourneYesterdayDay = WeekdayNames[y + 1]
    /\ y = (clockDay - 1 + 7) % 7
    /\ (y + 1) % 7 = clockDay
    /\ clockDay = 0 => y = 6

\* the clock has reached a sunday, and yesterday reads saturday
C11_Witness ==
  /\ minutesLeft < WeekRun
  /\ clockDay = 0
  /\ melbourneDay = WeekdayNames[1]
  /\ melbourneYesterdayDay = WeekdayNames[7]

\* C12: currentTime is always a five-character zero-padded 24-hour HH:MM string,
\* HH in 00..23 and MM in 00..59, and dayOfWeek is always one of the seven
\* lowercase full English day names.
C12_ContextFormat ==
  /\ Len(melbourneCurrentTime) = 5
  /\ melbourneCurrentTime[3] = 58
  /\ \A i \in {1, 2, 4, 5} :
       melbourneCurrentTime[i] >= 48 /\ melbourneCurrentTime[i] <= 57
  /\ (melbourneCurrentTime[1] - 48) * 10 + (melbourneCurrentTime[2] - 48) = clockHours
  /\ (melbourneCurrentTime[4] - 48) * 10 + (melbourneCurrentTime[5] - 48) = clockMinutes
  /\ clockHours \in 0..23
  /\ clockMinutes \in 0..59
  /\ melbourneDay \in {WeekdayNames[i] : i \in 1..7}
  /\ melbourneDay = WeekdayNames[clockDay + 1]

\* the clock has reached five past nine, which reads "09:05"
C12_Witness ==
  /\ minutesLeft < WeekRun
  /\ clockHours = 9
  /\ clockMinutes = 5
  /\ melbourneCurrentTime = <<48, 57, 58, 48, 53>>

\* C20: along the clock, a spot with an overnight window on day d is reported
\* open at every minute from open on day d up to, not including, close on day
\* d+1, the midnight minute included, whatever the schedule of day d+1 is;
\* also for d = saturday, d+1 = sunday.
C20_OvernightContinuous ==
  \A d \in 0..6 :
    LET window == GetProp(spotHours, WeekdayNames[d + 1])
    IN  (OvernightWindow(window)
         /\ \/ clockDay = d /\ ClockMin >= OpenMin(window)
            \/ clockDay = (d + 1) % 7 /\ ClockMin < CloseMin(window))
          => evalResult = Return(TRUE)

\* midnight of the sunday after a saturday that opened overnight, sunday itself
\* being a closed day: reported open
C20_Witness ==
  /\ minutesLeft < TwoDayRun
  /\ clockDay = 0 /\ clockHours = 0 /\ clockMinutes = 0
  /\ OvernightWindow(GetProp(spotHours, WeekdayNames[7]))
  /\ ClosedDay(GetProp(spotHours, WeekdayNames[1]))
  /\ evalResult = Return(TRUE)

-----------------------------------------------------------------------------
(* Properties of the serve handler, checked under Spec *)

\* a required configuration value is missing
ConfigMissing == ~Truthy(supabaseUrl) \/ ~Truthy(supabaseServiceKey)

\* C13: when the upstream fetch returns an error, or a required configuration
\* value is missing, the handler answers 500 with a JSON body holding an error
\* message and no openSpotIds, and isSpotOpen is called for no spot.
C13_FailureAnswers500 ==
  (pc = "done" /\ (ConfigMissing \/ fetchError # Null))
    => /\ response.status = 500
       /\ DOMAIN response.body = {"error"}
       /\ response.body.error # ""
       /\ isSpotOpenCalls = <<>>

\* the fetch reported an error without a message: 500 with the fallback message
C13_Witness ==
  /\ pc = "done"
  /\ ~ConfigMissing
  /\ fetchError = [message |-> ""]
  /\ response = [status |-> 500, body |-> [error |-> "An unexpected error occurred."]]
  /\ isSpotOpenCalls = <<>>

\* C14: when the upstream fetch succeeds, the handler answers 200 with a body
\* {openSpotIds: [...]}; the array is empty when no spot is open, when the
\* fetched collection is empty and when the fetch returns no data at all.
C14_SuccessAnswers200 ==
  (pc = "done" /\ ~ConfigMissing /\ fetchError = Null)
    => /\ response.status = 200
       /\ DOMAIN response.body = {"openSpotIds"}
       /\ (spotsData = Null \/ OpenPositions = {}) => response.body.openSpotIds = <<>>

\* C15: within one request the TimeContext is resolved once and every spot of
\* the batch is evaluated against that same (dayOfWeek, currentTime,
\* yesterdayDayOfWeek); no two spots are evaluated against different times.
C15_OneContextPerBatch ==
  Evaluated =>
    /\ \A i \in 1..Len(isSpotOpenCalls) :
         /\ isSpotOpenCalls[i].hours = spotsData.v[i].hours
         /\ isSpotOpenCalls[i].dayOfWeek = timeContext.dayOfWeek
         /\ isSpotOpenCalls[i].currentTime = timeContext.currentTime
         /\ isSpotOpenCalls[i].yesterdayDayOfWeek = timeContext.yesterdayDayOfWeek
    /\ \A i, j \in 1..Len(isSpotOpenCalls) :
         /\ isSpotOpenCalls[i].dayOfWeek = isSpotOpenCalls[j].dayOfWeek
         /\ isSpotOpenCalls[i].currentTime = isSpotOpenCalls[j].currentTime
         /\ isSpotOpenCalls[i].yesterdayDayOfWeek = isSpotOpenCalls[j].yesterdayDayOfWeek

\* a batch of two spots with different hours, both evaluated, one of them open
C15_Witness ==
  /\ Evaluated
  /\ Len(isSpotOpenCalls) = 2
  /\ isSpotOpenCalls[1].hours # isSpotOpenCalls[2].hours
  /\ Cardinality(OpenPositions) = 1
  /\ response.status = 200

\* C18: for the spots A (wednesday 08:00-22:00), B (wednesday 22:00-06:00) and
\* C (hours null), evaluated on wednesday at 23:00 with yesterday tuesday, the
\* batch result is exactly ["B"].
C18_EndToEnd ==
  (/\ Evaluated
   /\ spotsData.v = EndToEndSpots
   /\ timeContext = [dayOfWeek          |-> WeekdayNames[4],
                     currentTime        |-> <<50, 51, 58, 48, 48>>,
                     yesterdayDayOfWeek |-> WeekdayNames[3]])
    => response = OkResponse(<<"B">>)

\* the scenario has run: three calls were made and B alone was returned
C18_Witness ==
  /\ Evaluated
  /\ spotsData.v = EndToEndSpots
  /\ timeContext.dayOfWeek = WeekdayNames[4]
  /\ timeContext.currentTime = <<50, 51, 58, 48, 48>>
  /\ Len(isSpotOpenCalls) = 3
  /\ response.body.openSpotIds = <<"B">>

-----------------------------------------------------------------------------
(* The comparisons of isSpotOpen on clock strings: one time of day is        *)
(* compared with every time of day by the operators <, > and >= the code     *)
(* applies to currentTime, open and close                                    *)

\* every zero-padded HH:MM string of a day
AllTimes == {formatTime(h, m) : h \in 0..23, m \in 0..59}

InitCompare ==
  /\ cmpA \in AllTimes
  /\ cmpResult = Null
  /\ EvalOff
  /\ HandlerOff
  /\ ClockOff
  /\ ConcurrentOff
  /\ PairOff
  /\ HomeOff

\* cmpA < b, cmpA > b and cmpA >= b for every time b; neither < nor > is the
\* case the two branches of the code both skip
CompareTimes ==
  /\ cmpResult = Null
  /\ cmpResult' = [less      |-> {b \in AllTimes : StrLess(cmpA, b)},
                   greater   |-> {b \in AllTimes : StrGreater(cmpA, b)},
                   greaterEq |-> {b \in AllTimes : StrGreaterEq(cmpA, b)},
                   neither   |-> {b \in AllTimes : ~StrLess(cmpA, b) /\ ~StrGreater(cmpA, b)}]
  /\ UNCHANGED cmpA
  /\ UNCHANGED <<evalVars, handlerVars, clockVars, concurrentVars, pairVars, homeVars>>

NextCompare == CompareTimes

SpecCompare == InitCompare /\ [][NextCompare]_vars

\* the comparisons of cmpA have been made
Compared == cmpResult # Null

\* C17: on zero-padded HH:MM strings the string order is the numeric order of
\* the times: a < b as strings exactly when a's minutes after midnight are
\* fewer than b's, likewise for > and >=, and two strings are unordered by <
\* and > exactly when they denote the same minute.
C17_StringOrderIsTimeOrder ==
  Compared =>
    /\ cmpResult.less      = {b \in AllTimes : Minutes(cmpA) < Minutes(b)}
    /\ cmpResult.greater   = {b \in AllTimes : Minutes(cmpA) > Minutes(b)}
    /\ cmpResult.greaterEq = {b \in AllTimes : Minutes(cmpA) >= Minutes(b)}
    /\ cmpResult.neither   = {b \in AllTimes : Minutes(cmpA) = Minutes(b)}
    /\ cmpResult.neither   = {cmpA}

\* 09:59 compared: 10:00 is greater and 09:58 smaller, across a change of the
\* leading digit
C17_Witness ==
  /\ Compared
  /\ cmpA = <<48, 57, 58, 53, 57>>
  /\ <<49, 48, 58, 48, 48>> \in cmpResult.less
  /\ <<48, 57, 58, 53, 56>> \in cmpResult.greater
  /\ Cardinality(cmpResult.less) = 24 * 60 - 600

-----------------------------------------------------------------------------
(* SpecConcurrent: two invocations of the serve handler in one isolate. An   *)
(* invocation runs from its start to the awaited query without interruption, *)
(* and from the query's completion to its response; the other invocation may *)
(* run in between. The locals of an invocation are the fields of its record; *)
(* the environment variables are the only values both read.                  *)

Invocations == {1, 2}

\* the other invocation
Other(r) == 3 - r

\* the rows an invocation may fetch: none, the three rows of the end-to-end
\* scenario, one row with a number for open, one row with an overnight window
ConcurrentSpotLists ==
  { <<>>,
    EndToEndSpots,
    << [id |-> "A",
        hours |-> MakeHours({<<WEDNESDAY, MakeSchedule(Num(900), Str(formatTime(17, 0)))>>})] >>,
    << [id |-> "C",
        hours |-> MakeHours({<<WEDNESDAY, MakeSchedule(Str(formatTime(22, 0)),
                                                       Str(formatTime(6, 0)))>>})] >> }

\* the minutes after midnight an invocation may read the clock at
ConcurrentMinutes == {1 * 60 + 15, 23 * 60}

\* the locals of an invocation that has not started; overlapped records that
\* the invocation took a step while the other one was suspended at its query
FreshInvocation ==
  [pc |-> "idle", spotsData |-> Null, fetchError |-> Null, timeContext |-> Null,
   response |-> Null, overlapped |-> FALSE]

InFlight(r) == requests[r].pc \in {"fetch", "evaluate"}

\* invocation r takes a step that leaves its locals as the record next
Step(r, next) ==
  /\ requests' = [requests EXCEPT
                    ![r] = [next EXCEPT !.overlapped = @ \/ InFlight(Other(r))]]
  /\ UNCHANGED <<evalVars, handlerVars, clockVars, compareVars, pairVars, homeVars>>

InitConcurrent ==
  /\ requests = [r \in Invocations |-> FreshInvocation]
  /\ supabaseUrl \in EnvValues
  /\ supabaseServiceKey \in EnvValues
  /\ pc = "off"
  /\ isSpotOpenCalls = <<>>
  /\ spotsData = Null
  /\ fetchError = Null
  /\ timeContext = Null
  /\ response = Null
  /\ EvalOff
  /\ ClockOff
  /\ CompareOff
  /\ PairOff
  /\ HomeOff

\* the handler is entered; the configuration is read and the query is issued,
\* or a missing value throws into the catch block
ServeStart(r) ==
  /\ requests[r].pc = "idle"
  /\ IF ~Truthy(supabaseUrl) \/ ~Truthy(supabaseServiceKey)
       THEN Step(r, [requests[r] EXCEPT !.pc = "done",
                                        !.response = ErrorResponse(MissingConfigError)])
       ELSE Step(r, [requests[r] EXCEPT !.pc = "fetch"])

\* the awaited query of r reports an error
ServeFetchFails(r) ==
  /\ requests[r].pc = "fetch"
  /\ \E e \in FetchErrors :
       Step(r, [requests[r] EXCEPT !.pc = "done", !.fetchError = e,
                                   !.response = ErrorResponse(e)])

\* the awaited query of r gives neither an error nor data
ServeFetchGivesNoData(r) ==
  /\ requests[r].pc = "fetch"
  /\ Step(r, [requests[r] EXCEPT !.pc = "done", !.response = OkResponse(<<>>)])

\* the awaited query of r gives rows
ServeFetchGivesSpots(r) ==
  /\ requests[r].pc = "fetch"
  /\ \E spots \in ConcurrentSpotLists :
       Step(r, [requests[r] EXCEPT !.pc = "evaluate",
                                   !.spotsData = [t |-> "array", v |-> spots]])

\* a mutant of ServeEvaluate: the fetched rows are kept in a variable outside
\* the handler, so that r filters the rows the other invocation fetched when
\* that one's query has completed too
ServeEvaluateSharedRows(r) ==
  /\ requests[r].pc = "evaluate"
  /\ \E dayIndex \in HandlerDayIndexes, g \in ConcurrentMinutes :
       LET context == getCurrentMelbourneTime(dayIndex, g \div 60, g % 60)
           rows    == IF requests[Other(r)].spotsData.t = "array"
                        THEN requests[Other(r)].spotsData.v
                        ELSE requests[r].spotsData.v
       IN  Step(r, [requests[r] EXCEPT
                      !.pc = "done",
                      !.timeContext = context,
                      !.response = IF FilterThrows(rows, context)
                                     THEN ErrorResponse(FilterError(rows, context))
                                     ELSE OkResponse(openSpotIds(rows, context))])

\* r reads the clock once, filters its own rows and answers
ServeEvaluate(r) ==
  /\ requests[r].pc = "evaluate"
  /\ \E dayIndex \in HandlerDayIndexes, g \in ConcurrentMinutes :
       LET context == getCurrentMelbourneTime(dayIndex, g \div 60, g % 60)
           rows    == requests[r].spotsData.v
       IN  Step(r, [requests[r] EXCEPT
                      !.pc = "done",
                      !.timeContext = context,
                      !.response = IF FilterThrows(rows, context)
                                     THEN ErrorResponse(FilterError(rows, context))
                                     ELSE OkResponse(openSpotIds(rows, context))])

NextConcurrent ==
  \E r \in Invocations :
    \/ ServeStart(r)
    \/ ServeFetchFails(r)
    \/ ServeFetchGivesNoData(r)
    \/ ServeFetchGivesSpots(r)
    \/ ServeEvaluate(r)

SpecConcurrent == InitConcurrent /\ [][NextConcurrent]_vars

\* the ids of the rows for which isSpotOpen, called with the context alone,
\* returns true, in the order of the rows
RECURSIVE AloneIds(_, _)
AloneIds(rows, context) ==
  IF rows = <<>> THEN <<>>
  ELSE LET rest == AloneIds(Tail(rows), context)
       IN  IF isSpotOpen(Head(rows).hours, context.dayOfWeek, context.currentTime,
                         context.yesterdayDayOfWeek) = Return(TRUE)
             THEN <<Head(rows).id>> \o rest
             ELSE rest

\* invocation r has filtered its rows and answered
Answered(r) == requests[r].pc = "done" /\ requests[r].timeContext # Null

\* C16: concurrent requests are independent: under any interleaving of two
\* handler invocations the openSpotIds of each is what the invocation returns
\* alone for the rows it fetched and the TimeContext it resolved, and no
\* invocation's locals are written by the other.
C16_RequestsIndependent ==
  \A r \in DOMAIN requests :
    /\ (Answered(r) /\ requests[r].response.status = 200)
         => requests[r].response.body.openSpotIds
              = AloneIds(requests[r].spotsData.v, requests[r].timeContext)
    /\ (Answered(r) /\ requests[r].response.status # 200)
         => \E i \in 1..Len(requests[r].spotsData.v) :
              isSpotOpen(requests[r].spotsData.v[i].hours,
                         requests[r].timeContext.dayOfWeek,
                         requests[r].timeContext.currentTime,
                         requests[r].timeContext.yesterdayDayOfWeek).throws
    /\ requests[r].pc = "idle" => requests[r] = FreshInvocation
    /\ requests[r].pc = "evaluate"
         => requests[r].response = Null /\ requests[r].timeContext = Null

\* both invocations overlapped, fetched different rows, resolved different
\* contexts and gave different answers, one of them ["B"]
C16_Witness ==
  /\ DOMAIN requests = Invocations
  /\ Answered(1) /\ Answered(2)
  /\ requests[1].overlapped /\ requests[2].overlapped
  /\ requests[1].spotsData # requests[2].spotsData
  /\ requests[1].timeContext # requests[2].timeContext
  /\ requests[1].response = OkResponse(<<"B">>)
  /\ requests[2].response = OkResponse(<<"C">>)

-----------------------------------------------------------------------------
(* SpecWeek: a spot with a well-formed weekly hours map is evaluated at      *)
(* every minute of a week, yesterday being the day before the clock's day    *)

\* what a day of a well-formed map holds: no entry, closed, a same-day window,
\* an overnight window, an overnight window that ends after 09:00
WellFormedDays ==
  { Undefined,
    MakeSchedule(Str(CLOSED), Str(CLOSED)),
    MakeSchedule(Str(formatTime(9, 0)), Str(formatTime(17, 30))),
    MakeSchedule(Str(formatTime(22, 0)), Str(formatTime(2, 0))),
    MakeSchedule(Str(formatTime(18, 5)), Str(formatTime(10, 0))) }

\* the days whose entries are varied: saturday, sunday (the week wraps between
\* them) and monday
VariedDays == {6, 0, 1}

\* the maps watched: every choice for the varied days with no other entry,
\* and the maps holding one and the same entry on all seven days
WeeklyMaps ==
  {MakeHours({<<days[d + 1], f[d]>> : d \in VariedDays}) :
     f \in [VariedDays -> WellFormedDays]}
  \cup {MakeHours({<<days[d + 1], w>> : d \in 0..6}) : w \in WellFormedDays}

\* the week watched runs from monday 00:00, so that the sunday on which the
\* clock may change comes last
InitWeek ==
  /\ evalPc = "called"
  /\ clockDay = 1
  /\ clockHours = 0
  /\ clockMinutes = 0
  /\ minutesLeft = WeekRun
  /\ clockShift = "none"
  /\ spotHours \in WeeklyMaps
  /\ LET context == getCurrentMelbourneTime(clockDay, clockHours, clockMinutes)
     IN  /\ melbourneDay = context.dayOfWeek
         /\ melbourneCurrentTime = context.currentTime
         /\ melbourneYesterdayDay = context.yesterdayDayOfWeek
         /\ evalResult = isSpotOpen(spotHours, context.dayOfWeek, context.currentTime,
                                    context.yesterdayDayOfWeek)
  /\ HandlerOff
  /\ ConcurrentOff
  /\ CompareOff
  /\ PairOff
  /\ HomeOff

SpecWeek == InitWeek /\ [][NextClock]_vars

\* the minutes of a day and of a week
DayMinutes == 24 * 60

WeekMinutes == 7 * DayMinutes

\* the clock's instant in minutes after sunday 00:00
WeekMinute == clockDay * DayMinutes + ClockMin

\* the entry of the map for day d
DayEntry(d) == GetProp(spotHours, WeekdayNames[d + 1])

\* every key is a lowercase day name and every entry is closed or a window
\* whose open and close differ
WellFormedWeek ==
  /\ spotHours.t = "object"
  /\ \A key \in DOMAIN spotHours.v :
       /\ \E d \in 0..6 : key = WeekdayNames[d + 1]
       /\ LET entry == spotHours.v[key]
          IN  \/ ClosedDay(entry) /\ ~MissingField(entry)
              \/ SameDayWindow(entry)
              \/ OvernightWindow(entry)

\* the instant lies in the interval some day's window covers: [open, close) of
\* a same-day window, [open, close + 24h) of an overnight one, modulo a week
ReferenceOpen ==
  \E d \in 0..6 :
    \/ /\ SameDayWindow(DayEntry(d))
       /\ WeekMinute >= d * DayMinutes + OpenMin(DayEntry(d))
       /\ WeekMinute < d * DayMinutes + CloseMin(DayEntry(d))
    \/ /\ OvernightWindow(DayEntry(d))
       /\ (WeekMinute - (d * DayMinutes + OpenMin(DayEntry(d)))) % WeekMinutes
            < CloseMin(DayEntry(d)) + DayMinutes - OpenMin(DayEntry(d))

\* C21: for a well-formed weekly hours map and every instant of the week,
\* isSpotOpen with yesterday the day before today equals the reference
\* predicate over minutes of the week: the instant lies in [open, close) of a
\* same-day window or in [open, close + 24h) of an overnight window of some
\* day, modulo one week.
C21_WeekReference ==
  (WellFormedWeek /\ melbourneDay = WeekdayNames[clockDay + 1]
     /\ melbourneYesterdayDay = WeekdayNames[((clockDay + 6) % 7) + 1])
    => evalResult = Return(ReferenceOpen)

\* sunday 01:59, open through saturday's overnight window alone, sunday
\* being closed
C21_Witness ==
  /\ minutesLeft < WeekRun
  /\ WellFormedWeek
  /\ clockDay = 0 /\ clockHours = 1 /\ clockMinutes = 59
  /\ OvernightWindow(DayEntry(6))
  /\ ClosedDay(DayEntry(0))
  /\ ReferenceOpen
  /\ evalResult = Return(TRUE)

-----------------------------------------------------------------------------
(* SpecUnpadded: a spot whose hours hold times written without the leading   *)
(* zero is evaluated at every minute of a wednesday                          *)

\* 9:00, 9:30, 2:00 as a producer may write them, and 09:00, 17:00, 22:00
StoredTimes ==
  {<<57, 58, 48, 48>>, <<57, 58, 51, 48>>, <<50, 58, 48, 48>>,
   formatTime(9, 0), formatTime(17, 0), formatTime(22, 0)}

InitUnpadded ==
  /\ evalPc = "called"
  /\ clockDay = 3
  /\ clockHours = 0
  /\ clockMinutes = 0
  /\ minutesLeft = 24 * 60 - 1
  /\ clockShift = "none"
  /\ \E o \in StoredTimes, c \in StoredTimes :
       \/ spotHours = MakeHours({<<days[4], MakeSchedule(Str(o), Str(c))>>})
       \/ \E yo \in {formatTime(22, 0), <<57, 58, 48, 48>>}, yc \in {<<50, 58, 48, 48>>} :
            spotHours = MakeHours({<<days[4], MakeSchedule(Str(o), Str(c))>>,
                                   <<days[3], MakeSchedule(Str(yo), Str(yc))>>})
  /\ LET context == getCurrentMelbourneTime(clockDay, clockHours, clockMinutes)
     IN  /\ melbourneDay = context.dayOfWeek
         /\ melbourneCurrentTime = context.currentTime
         /\ melbourneYesterdayDay = context.yesterdayDayOfWeek
         /\ evalResult = isSpotOpen(spotHours, context.dayOfWeek, context.currentTime,
                                    context.yesterdayDayOfWeek)
  /\ HandlerOff
  /\ ConcurrentOff
  /\ CompareOff
  /\ PairOff
  /\ HomeOff

SpecUnpadded == InitUnpadded /\ [][NextClock]_vars

\* a before b character by character, a proper prefix first
RECURSIVE CharLess(_, _)
CharLess(a, b) ==
  IF b = <<>> THEN FALSE
  ELSE IF a = <<>> THEN TRUE
  ELSE IF Head(a) # Head(b) THEN Head(a) < Head(b)
  ELSE CharLess(Tail(a), Tail(b))

\* the open and close strings of a schedule
OpenText(schedule) == schedule.v[OPEN].v

CloseText(schedule) == schedule.v[CLOSE].v

\* today's window decided by character-wise comparison alone
TodayMatchesByCharacters ==
  /\ IsWindow(TodaySchedule)
  /\ IF CharLess(OpenText(TodaySchedule), CloseText(TodaySchedule))
       THEN /\ ~CharLess(melbourneCurrentTime, OpenText(TodaySchedule))
            /\ CharLess(melbourneCurrentTime, CloseText(TodaySchedule))
       ELSE /\ CharLess(CloseText(TodaySchedule), OpenText(TodaySchedule))
            /\ ~CharLess(melbourneCurrentTime, OpenText(TodaySchedule))

\* yesterday's spillover decided by character-wise comparison alone
SpilloverByCharacters ==
  /\ IsWindow(YesterdaySchedule)
  /\ CharLess(CloseText(YesterdaySchedule), OpenText(YesterdaySchedule))
  /\ CharLess(melbourneCurrentTime, CloseText(YesterdaySchedule))

\* C22: the evaluator neither parses nor normalises time strings: with a time
\* that is not zero-padded, the window kind and the containment test follow
\* plain character-wise comparison; open "9:00" / close "17:00" is handled as
\* an overnight window and, with no spillover from yesterday, gives false at
\* currentTime "12:00".
C22_NoNormalisation ==
  Called =>
    /\ evalResult = Return(TodayMatchesByCharacters \/ SpilloverByCharacters)
    /\ (/\ IsWindow(TodaySchedule)
        /\ OpenText(TodaySchedule) = <<57, 58, 48, 48>>
        /\ CloseText(TodaySchedule) = <<49, 55, 58, 48, 48>>
        /\ ~SpilloverByCharacters)
         => /\ CharLess(CloseText(TodaySchedule), OpenText(TodaySchedule))
            /\ evalResult = Return(FALSE)

\* wednesday 12:00, open "9:00", close "17:00", no entry for tuesday: false
C22_Witness ==
  /\ Called
  /\ melbourneCurrentTime = <<49, 50, 58, 48, 48>>
  /\ IsWindow(TodaySchedule)
  /\ OpenText(TodaySchedule) = <<57, 58, 48, 48>>
  /\ CloseText(TodaySchedule) = <<49, 55, 58, 48, 48>>
  /\ YesterdaySchedule = Undefined
  /\ evalResult = Return(FALSE)

-----------------------------------------------------------------------------
(* Termination of the serve handler, checked under FairSpec *)

\* the handler has not answered, or it has answered 200 with openSpotIds alone
\* or 500 with error alone
ResponseShape ==
  /\ pc # "done" => response = Null
  /\ pc = "done" =>
       \/ response.status = 200 /\ DOMAIN response.body = {"openSpotIds"}
       \/ response.status = 500 /\ DOMAIN response.body = {"error"}

\* C24: every request to the handler ends with exactly one response, provided
\* the upstream fetch returns: 200 with a body holding openSpotIds and no
\* error, or 500 with a body holding error and no openSpotIds; no exception
\* escapes the handler and no other status is produced.
C24_AlwaysOneResponse ==
  /\ []ResponseShape
  /\ [][response # Null => response' = response]_vars
  /\ <>(pc = "done")
  /\ [](pc \in {"idle", "config", "fetch", "evaluate", "done"})

\* a request whose filter callback threw, answered 500 from the catch block
C24_Witness ==
  /\ pc = "done"
  /\ spotsData.t = "array"
  /\ FilterThrows(spotsData.v, timeContext)
  /\ response.status = 500
  /\ DOMAIN response.body = {"error"}

-----------------------------------------------------------------------------
(* SpecPair: isSpotOpen is called with one TimeContext on two hours maps     *)
(* that hold the same entries for today and yesterday and differ on the      *)
(* other five days                                                           *)

\* what the other five days may hold: a same-day window, an overnight window,
\* a number for open, closed
OtherDayEntries ==
  << MakeSchedule(Str(formatTime(0, 0)), Str(formatTime(23, 59))),
     MakeSchedule(Str(formatTime(12, 0)), Str(formatTime(0, 1))),
     MakeSchedule(Num(900), Str(formatTime(17, 0))),
     MakeSchedule(Str(CLOSED), Str(CLOSED)) >>

\* the pairs of ways the other five days of the two maps are filled: -1 for
\* not at all, a shift s for day d holding the entry at position d + s
OtherDayFills == {<<-1, 1>>, <<-1, 2>>, <<0, 1>>, <<0, 2>>}

\* the hours map with the entries st and sy for today and yesterday and the
\* other days filled the given way
FilledHours(dayIndex, st, sy, fill) ==
  LET rest == {d \in 0..6 : d # dayIndex /\ d # yesterdayIndex(dayIndex)}
  IN  MakeHours({<<days[dayIndex + 1], st>>, <<days[yesterdayIndex(dayIndex) + 1], sy>>}
                \cup (IF fill < 0 THEN {}
                      ELSE {<<days[d + 1], OtherDayEntries[((d + fill) % 4) + 1]>> :
                              d \in rest}))

InitPair ==
  /\ evalPc = "input"
  /\ evalResult = Null
  /\ otherResult = Null
  /\ melbourneCurrentTime = <<>>
  /\ \E dayIndex \in SampleDayIndexes, st \in DaySchedules, sy \in DaySchedules,
        fills \in OtherDayFills :
       /\ melbourneDay = days[dayIndex + 1]
       /\ melbourneYesterdayDay = days[yesterdayIndex(dayIndex) + 1]
       /\ spotHours = FilledHours(dayIndex, st, sy, fills[1])
       /\ otherHours = FilledHours(dayIndex, st, sy, fills[2])
  /\ HandlerOff
  /\ ClockOff
  /\ ConcurrentOff
  /\ CompareOff
  /\ HomeOff

\* isSpotOpen is called on both maps with the same day names and clock reading
CallOnBoth ==
  /\ evalPc = "input"
  /\ \E t \in ClockTimes :
       /\ melbourneCurrentTime' = t
       /\ evalResult' = isSpotOpen(spotHours, melbourneDay, t, melbourneYesterdayDay)
       /\ otherResult' = isSpotOpen(otherHours, melbourneDay, t, melbourneYesterdayDay)
  /\ evalPc' = "called"
  /\ UNCHANGED <<spotHours, melbourneDay, melbourneYesterdayDay, otherHours>>
  /\ UNCHANGED <<handlerVars, clockVars, concurrentVars, compareVars, homeVars>>

NextPair == CallOnBoth

SpecPair == InitPair /\ [][NextPair]_vars

\* the entry an hours map holds under a day name, Undefined for none
EntryOf(hours, day) ==
  IF hours.t = "object" /\ day \in DOMAIN hours.v THEN hours.v[day] ELSE Undefined

\* the two maps hold the same entries for today and for yesterday
AgreeOnTodayAndYesterday ==
  /\ spotHours.t = "object" /\ otherHours.t = "object"
  /\ EntryOf(spotHours, melbourneDay) = EntryOf(otherHours, melbourneDay)
  /\ EntryOf(spotHours, melbourneYesterdayDay) = EntryOf(otherHours, melbourneYesterdayDay)

\* C23: the result of isSpotOpen depends only on the hours entries for today
\* and yesterday: two hours maps that agree on those two days give the same
\* result for the same TimeContext, whatever the other five days hold.
C23_OnlyTodayAndYesterday ==
  (Called /\ AgreeOnTodayAndYesterday) => evalResult = otherResult

\* two maps without entries for today and yesterday, one of them empty, the
\* other with windows, a number for open and closed on the other days: false
C23_Witness ==
  /\ Called
  /\ AgreeOnTodayAndYesterday
  /\ spotHours # otherHours
  /\ DOMAIN spotHours.v = {}
  /\ Cardinality(DOMAIN otherHours.v) = 5
  /\ evalResult = Return(FALSE)
  /\ otherResult = Return(FALSE)

-----------------------------------------------------------------------------
(* SpecHome: HomeScreen. The state of the component is the value of its      *)
(* useState hooks. A callback runs without interruption from its start, or   *)
(* from the completion of the call it awaits, to its next await or its       *)
(* return; the state updates it makes are applied together, the component    *)
(* renders and its effects run. fetchSpotsData reads the filter values of    *)
(* the render it was created in: an event handler calls the one of the       *)
(* last render, a timeout of debounce and a suspended call keep their own.   *)

\* the state of the hooks, as a record
HomeState ==
  [homeSpots |-> homeSpots, loading |-> loading, homeError |-> homeError,
   refreshing |-> refreshing, searchText |-> searchText, wifiFilter |-> wifiFilter,
   powerFilter |-> powerFilter, openNowFilterActive |-> openNowFilterActive,
   fetchedOpenSpotIds |-> fetchedOpenSpotIds,
   isLoadingOpenNowIds |-> isLoadingOpenNowIds]

\* the component with its suspended calls, its timeouts and the number of
\* invocations made
HomeWorld ==
  [st |-> HomeState, inFlight |-> inFlight, timers |-> timers,
   invocations |-> invocations]

\* the values fetchSpotsData closes over: the dependencies of its useCallback
ClosureOf(st) ==
  [searchText |-> st.searchText, wifiFilter |-> st.wifiFilter,
   powerFilter |-> st.powerFilter, openNowFilterActive |-> st.openNowFilterActive,
   fetchedOpenSpotIds |-> st.fetchedOpenSpotIds,
   isLoadingOpenNowIds |-> st.isLoadingOpenNowIds]

\* the dependencies of the effect for the filter toggles
FilterDeps(st) == <<st.wifiFilter, st.powerFilter, st.openNowFilterActive>>

\* an array of open spot ids: whether it has elements, the invocation that
\* produced it (two arrays of different invocations are different objects)
\* and the activation of Open Now the invocation was started in
IdArray(elements, serial, act) == [ids |-> elements, serial |-> serial, act |-> act]

\* setLoading(false) without setRefreshing(false)
StopLoadingKeepRefreshing(st) == [st EXCEPT !.loading = FALSE]

\* setLoading(false); setRefreshing(false)
StopLoading(st) == [st EXCEPT !.loading = FALSE, !.refreshing = FALSE]

\* fetchSpotsData from the query on: an empty id list empties the list
\* without a query, otherwise the query is awaited
QueryPart(w, closure, ids, act) ==
  IF ids # Null /\ ids.ids = "none"
    THEN [w EXCEPT !.st = StopLoading([@ EXCEPT !.homeSpots = [from |-> "noOpenIds"]])]
    ELSE [w EXCEPT !.inFlight =
            Append(@, [await    |-> "query",
                       query    |-> [searchText  |-> closure.searchText,
                                     wifiFilter  |-> closure.wifiFilter,
                                     powerFilter |-> closure.powerFilter,
                                     ids         |-> ids],
                       issuedIn |-> act])]

\* fetchSpotsData(isRefresh) of the render with the given closure, up to its
\* first await or its return
fetchSpotsData(w, closure, isRefresh, act) ==
  LET started == [w EXCEPT !.st.loading = IF isRefresh THEN @ ELSE TRUE,
                           !.st.refreshing = IF isRefresh THEN TRUE ELSE @,
                           !.st.homeError = Null]
  IN  IF closure.openNowFilterActive
        THEN IF closure.fetchedOpenSpotIds = Null /\ ~closure.isLoadingOpenNowIds
               THEN [started EXCEPT
                       !.st.isLoadingOpenNowIds = TRUE,
                       !.invocations = @ + 1,
                       !.inFlight = Append(@, [await     |-> "invoke",
                                               closure   |-> closure,
                                               isRefresh |-> isRefresh,
                                               serial    |-> w.invocations + 1,
                                               act       |-> act])]
             ELSE IF closure.isLoadingOpenNowIds
               THEN started
             ELSE QueryPart(started, closure, closure.fetchedOpenSpotIds, act)
        ELSE QueryPart(IF closure.fetchedOpenSpotIds # Null
                         THEN [started EXCEPT !.st.fetchedOpenSpotIds = Null]
                         ELSE started,
                       closure, Null, act)

\* the render after the state before has changed to that of w, and its
\* effects: a change of a filter toggle calls fetchSpotsData, a change of
\* searchText or of fetchSpotsData starts a timeout of a new debounce; a
\* change fetchSpotsData makes to its own dependencies renders once more
Commit(before, w, act) ==
  LET closure == ClosureOf(w.st)
      fetched == IF FilterDeps(before) # FilterDeps(w.st)
                   THEN fetchSpotsData(w, closure, FALSE, act)
                   ELSE w
      delayed == IF ClosureOf(before) # closure
                   THEN [fetched EXCEPT !.timers = Append(@, closure)]
                   ELSE fetched
  IN  IF ClosureOf(delayed.st) # closure
        THEN [delayed EXCEPT !.timers = Append(@, ClosureOf(delayed.st))]
        ELSE delayed

\* the component after mounting: the mount effect calls fetchSpotsData and
\* clears isInitialMount, so that the two effects after it call
\* fetchSpotsData and debouncedFetch as well
MountEffects(w) ==
  LET closure == ClosureOf(w.st)
      once    == fetchSpotsData(w, closure, FALSE, 0)
      twice   == fetchSpotsData(once, closure, FALSE, 0)
  IN  [twice EXCEPT !.timers = Append(@, closure)]

\* the variables of the component take the values of w, computed once
Become(w) ==
  \E x \in {w} :
    /\ homeSpots' = x.st.homeSpots
    /\ loading' = x.st.loading
    /\ homeError' = x.st.homeError
    /\ refreshing' = x.st.refreshing
    /\ searchText' = x.st.searchText
    /\ wifiFilter' = x.st.wifiFilter
    /\ powerFilter' = x.st.powerFilter
    /\ openNowFilterActive' = x.st.openNowFilterActive
    /\ fetchedOpenSpotIds' = x.st.fetchedOpenSpotIds
    /\ isLoadingOpenNowIds' = x.st.isLoadingOpenNowIds
    /\ inFlight' = x.inFlight
    /\ timers' = x.timers
    /\ invocations' = x.invocations
    /\ UNCHANGED <<evalVars, handlerVars, clockVars, concurrentVars, compareVars, pairVars>>

\* spots.length === 0: the list is empty unless a query has delivered rows
\* that setSpots kept
NoSpots == homeSpots.from # "query" \/ ~homeSpots.kept

\* (loading || isLoadingOpenNowIds) && !refreshing
isActuallyLoading == (loading \/ isLoadingOpenNowIds) /\ ~refreshing

\* the header with the search field and the filter buttons is rendered
HeaderShown ==
  /\ mounted
  /\ ~(/\ isActuallyLoading /\ NoSpots /\ searchText = ""
       /\ wifiFilter = "all" /\ powerFilter = "all" /\ ~openNowFilterActive)

\* the list with its RefreshControl is rendered and can be pulled
ListShown == HeaderShown /\ ~isActuallyLoading /\ homeError = Null /\ ~refreshing

\* the user acts once more
UserActs ==
  /\ userActionsLeft > 0
  /\ userActionsLeft' = userActionsLeft - 1

\* the component before it is mounted: the initial values of its hooks
HomeInitial ==
  /\ mounted = FALSE
  /\ homeSpots = [from |-> "initial"]
  /\ loading = TRUE
  /\ homeError = Null
  /\ refreshing = FALSE
  /\ searchText = ""
  /\ wifiFilter = "all"
  /\ powerFilter = "all"
  /\ openNowFilterActive = FALSE
  /\ fetchedOpenSpotIds = Null
  /\ isLoadingOpenNowIds = FALSE
  /\ inFlight = <<>>
  /\ timers = <<>>
  /\ invocations = 0
  /\ activation = 0
  /\ openNowFailed = FALSE
  /\ refreshSettling = FALSE
  /\ EvalOff
  /\ HandlerOff
  /\ ClockOff
  /\ ConcurrentOff
  /\ CompareOff
  /\ PairOff

InitHome == HomeInitial /\ userActionsLeft = MaxUserActions

InitOpenNow == HomeInitial /\ userActionsLeft = MaxToggles

InitSettling == HomeInitial /\ userActionsLeft = MaxSettlingActions

\* the component is mounted and its effects run
Mount ==
  /\ ~mounted
  /\ mounted' = TRUE
  /\ Become(MountEffects(HomeWorld))
  /\ UNCHANGED <<userActionsLeft, activation, openNowFailed, refreshSettling>>

\* the user changes the search text
ChangeSearchText ==
  /\ HeaderShown
  /\ UserActs
  /\ Become(Commit(HomeState,
                   [HomeWorld EXCEPT !.st.searchText = IF @ = "" THEN "a" ELSE ""],
                   activation))
  /\ refreshSettling' = FALSE
  /\ UNCHANGED <<mounted, activation, openNowFailed>>

\* toggleFilter('wifi') and toggleFilter('power')
ToggleAmenityFilter ==
  /\ HeaderShown
  /\ UserActs
  /\ \/ Become(Commit(HomeState,
                      [HomeWorld EXCEPT !.st.wifiFilter = IF @ = "yes" THEN "all" ELSE "yes"],
                      activation))
     \/ Become(Commit(HomeState,
                      [HomeWorld EXCEPT !.st.powerFilter = IF @ = "yes" THEN "all" ELSE "yes"],
                      activation))
  /\ refreshSettling' = FALSE
  /\ UNCHANGED <<mounted, activation, openNowFailed>>

\* toggleFilter('openNow'): the button is disabled while isLoadingOpenNowIds
ToggleOpenNow ==
  /\ HeaderShown
  /\ ~isLoadingOpenNowIds
  /\ UserActs
  /\ activation' = IF openNowFilterActive THEN activation ELSE activation + 1
  /\ Become(Commit(HomeState,
                   [HomeWorld EXCEPT !.st.openNowFilterActive = ~@,
                                     !.st.fetchedOpenSpotIds = Null],
                   activation'))
  /\ openNowFailed' = FALSE
  /\ refreshSettling' = FALSE
  /\ UNCHANGED mounted

\* onRefresh: the filters are cleared and fetchSpotsData(true) of the render
\* before the pull is called
PullToRefresh ==
  /\ ListShown
  /\ UserActs
  /\ Become(Commit(HomeState,
                   fetchSpotsData([HomeWorld EXCEPT !.st.searchText = "",
                                                    !.st.wifiFilter = "all",
                                                    !.st.powerFilter = "all",
                                                    !.st.openNowFilterActive = FALSE,
                                                    !.st.fetchedOpenSpotIds = Null],
                                  ClosureOf(HomeState), TRUE, activation),
                   activation))
  /\ refreshSettling' = (searchText # "" \/ wifiFilter = "yes" \/ powerFilter = "yes"
                         \/ openNowFilterActive)
  /\ openNowFailed' = FALSE
  /\ UNCHANGED <<mounted, activation>>

\* the Try Again button under the error message
TryAgain ==
  /\ HeaderShown
  /\ homeError # Null
  /\ UserActs
  /\ Become(Commit(HomeState,
                   fetchSpotsData(HomeWorld, ClosureOf(HomeState), FALSE, activation),
                   activation))
  /\ refreshSettling' = FALSE
  /\ UNCHANGED <<mounted, activation, openNowFailed>>

\* the oldest timeout of debounce expires and calls the fetchSpotsData it holds
TimerFires ==
  /\ timers # <<>>
  /\ Become(Commit(HomeState,
                   fetchSpotsData([HomeWorld EXCEPT !.timers = Tail(@)],
                                  Head(timers), FALSE, activation),
                   activation))
  /\ UNCHANGED <<mounted, userActionsLeft, activation, openNowFailed, refreshSettling>>

\* the sequence s without its element at position i
RemoveAt(s, i) == [j \in 1..(Len(s) - 1) |-> IF j < i THEN s[j] ELSE s[j + 1]]

\* supabase.functions.invoke returns to the call suspended at position i with
\* an error, with no open ids or with some
InvokeReturns ==
  \E i \in 1..Len(inFlight), result \in {"error", "none", "some"} :
    /\ inFlight[i].await = "invoke"
    /\ LET call    == inFlight[i]
           resumed == [HomeWorld EXCEPT !.inFlight = RemoveAt(@, i),
                                        !.st.isLoadingOpenNowIds = FALSE]
           ids     == IdArray(IF result = "some" THEN "some" ELSE "none",
                              call.serial, call.act)
       IN  IF result = "error"
             THEN /\ Become(Commit(HomeState,
                                   [resumed EXCEPT
                                      !.st = StopLoading([@ EXCEPT
                                               !.homeError = [t |-> "message", of |-> "openNow"],
                                               !.fetchedOpenSpotIds = ids])],
                                   activation))
                  /\ openNowFailed' = (\/ openNowFailed
                                        \/ (openNowFilterActive /\ call.act = activation))
             ELSE /\ Become(Commit(HomeState,
                                   QueryPart([resumed EXCEPT !.st.fetchedOpenSpotIds = ids],
                                             call.closure, ids, activation),
                                   activation))
                  /\ openNowFailed' = openNowFailed
    /\ UNCHANGED <<mounted, userActionsLeft, activation, refreshSettling>>

\* the study_spots query returns to the call suspended at position i: with
\* rows of which some have numeric coordinates, with none that is kept (data
\* empty or null, or no row with numeric coordinates), or with an error
QueryReturns ==
  \E i \in 1..Len(inFlight), outcome \in {"rows", "empty", "error"} :
    /\ inFlight[i].await = "query"
    /\ LET call    == inFlight[i]
           resumed == [HomeWorld EXCEPT !.inFlight = RemoveAt(@, i)]
       IN  Become(Commit(HomeState,
                         [resumed EXCEPT
                            !.st = StopLoading(
                                     IF outcome = "error"
                                       THEN [@ EXCEPT !.homeError = [t |-> "message", of |-> "query"],
                                                      !.homeSpots = [from |-> "queryError"]]
                                       ELSE [@ EXCEPT !.homeSpots =
                                               [from  |-> "query",
                                                query |-> call.query,
                                                kept  |-> outcome = "rows"]])],
                         activation))
    /\ UNCHANGED <<mounted, userActionsLeft, activation, openNowFailed, refreshSettling>>

NextHome ==
  \/ Mount
  \/ ChangeSearchText
  \/ ToggleAmenityFilter
  \/ ToggleOpenNow
  \/ PullToRefresh
  \/ TryAgain
  \/ TimerFires
  \/ InvokeReturns
  \/ QueryReturns

SpecHome == InitHome /\ [][NextHome]_vars

\* no study_spots query is awaited
QueriesAnswered == \A i \in 1..Len(inFlight) : inFlight[i].await # "query"

\* the user presses Open Now only, and the database answers a query before
\* anything else happens
NextOpenNow ==
  \/ Mount
  \/ QueriesAnswered /\ ToggleOpenNow
  \/ QueriesAnswered /\ TimerFires
  \/ QueriesAnswered /\ InvokeReturns
  \/ QueryReturns

SpecOpenNow == InitOpenNow /\ [][NextOpenNow]_vars

\* every timeout expires and every remote call returns
FairSpecHome ==
  /\ InitSettling
  /\ [][NextHome]_vars
  /\ WF_vars(Mount)
  /\ WF_vars(TimerFires)
  /\ WF_vars(InvokeReturns)
  /\ WF_vars(QueryReturns)

-----------------------------------------------------------------------------
(* Claims about HomeScreen.                                                  *)

\* the calls of fetchSpotsData suspended in supabase.functions.invoke
InvocationsInFlight == {i \in 1..Len(inFlight) : inFlight[i].await = "invoke"}

\* C27: at most one invocation of the isOpenNowFilter function is in flight
\* at any time, whatever the order of toggles, timeouts and fetch completions.
C27_OneInvocationInFlight == Cardinality(InvocationsInFlight) <= 1

\* the awaited study_spots queries that carry no restriction to open ids
UnrestrictedQueries(calls) ==
  {i \in 1..Len(calls) : calls[i].await = "query" /\ calls[i].query.ids = Null}

\* the awaited study_spots queries
AwaitedQueries(calls) == {i \in 1..Len(calls) : calls[i].await = "query"}

\* the step in which the invocation made for the active filter fails
FailureStep == ~openNowFailed /\ openNowFailed'

\* the step records the error, stores an empty id list and issues no query
FailureRecorded ==
  /\ homeError' # Null
  /\ fetchedOpenSpotIds' # Null
  /\ fetchedOpenSpotIds'.ids = "none"
  /\ Cardinality(AwaitedQueries(inFlight')) <= Cardinality(AwaitedQueries(inFlight))

\* a step after the failure during which the filter stays active
StepWhileFailed ==
  openNowFailed /\ openNowFilterActive /\ openNowFailed' /\ openNowFilterActive'

\* the step issues no study_spots query without the restriction to open ids
NoUnrestrictedQueryIssued ==
  Cardinality(UnrestrictedQueries(inFlight')) <= Cardinality(UnrestrictedQueries(inFlight))

\* C25: when the invocation made for the active Open Now filter fails, the
\* step records the error, stores an empty id list, not null, and issues no
\* query; from then on, as long as the filter stays active, no step issues a
\* study_spots query without the restriction to open ids.
C25_FailedOpenNowStaysRestricted ==
  [][(FailureStep => FailureRecorded) /\ (StepWhileFailed => NoUnrestrictedQueryIssued)]_vars

\* the first part of C25 alone: the step in which the invocation fails
C25_FailureStep == [][FailureStep => FailureRecorded]_vars

\* the step turns Open Now on or off
ToggleStep == openNowFilterActive' # openNowFilterActive

\* the awaited study_spots queries restricted by ids that an invocation
\* started in an earlier activation returned
StaleRestrictedQueries(calls) ==
  {i \in 1..Len(calls) :
     /\ calls[i].await = "query"
     /\ calls[i].query.ids # Null
     /\ calls[i].query.ids.act < calls[i].issuedIn}

\* the ids in use were returned by an invocation of an earlier activation
StaleIdsStored ==
  /\ openNowFilterActive
  /\ fetchedOpenSpotIds # Null
  /\ fetchedOpenSpotIds.act < activation

\* C26: every toggle of Open Now leaves fetchedOpenSpotIds null, and while
\* the filter is on, no ids returned by an invocation of an earlier
\* activation are stored or restrict a study_spots query.
C26_ToggleDiscardsIds ==
  /\ [][ToggleStep => fetchedOpenSpotIds' = Null]_vars
  /\ [](~StaleIdsStored)
  /\ [](StaleRestrictedQueries(inFlight) = {})

\* the first part of C26 alone: the toggle leaves fetchedOpenSpotIds null
C26_ToggleStep == [][ToggleStep => fetchedOpenSpotIds' = Null]_vars

\* no call of fetchSpotsData is suspended and no timeout is pending
Settled == mounted /\ inFlight = <<>> /\ timers = <<>>

\* the query was made with all filters cleared
ClearedQuery(query) ==
  /\ query.searchText = ""
  /\ query.wifiFilter = "all"
  /\ query.powerFilter = "all"
  /\ query.ids = Null

\* the list shows the answer to a query made with all filters cleared (its
\* rows, or nothing when a query failed)
ClearedResultDisplayed ==
  \/ homeSpots.from = "queryError"
  \/ homeSpots.from = "query" /\ ClearedQuery(homeSpots.query)

\* C28: after a pull-to-refresh made while search text or filters were set,
\* and with no user action since, once every fetch has completed the list
\* shows the result of a query made with all filters cleared and
\* fetchedOpenSpotIds is null.
C28_RefreshShowsClearedResult ==
  (refreshSettling /\ Settled) => (ClearedResultDisplayed /\ fetchedOpenSpotIds = Null)

\* loading, refreshing and isLoadingOpenNowIds are all false
AllIdle == ~loading /\ ~refreshing /\ ~isLoadingOpenNowIds

\* C29: when every timeout expires and every remote call returns, a state in
\* which loading or refreshing is true is eventually followed by a state in
\* which loading, refreshing and isLoadingOpenNowIds are all false.
C29_LoadingEnds == (loading \/ refreshing) ~> AllIdle

\* the invocation made for the active filter has failed and the three flags
\* are false
C29_Witness == mounted /\ openNowFailed /\ AllIdle

\* when nothing is suspended or pending any more, the three flags are false
SettledIdle == Settled => AllIdle

=============================================================================
